---------------------------- MODULE Spec2Model ----------------------------
(***************************************************************************)
(* FitWell: the SQLite persistence layer of the main process               *)
(* (src/main/database/index.ts with the schema of src/main/database/       *)
(* schema.ts): users, goals, daily logs, weight entries, the settings row, *)
(* and the computed streak and month summary.                              *)
(*                                                                         *)
(* Representation                                                          *)
(*   - a table is the set of its rows, a row a record with the column      *)
(*     names of the schema;                                                *)
(*   - SQL NULL / an absent optional value is None (the empty tuple), a    *)
(*     present value v is Some(v);                                         *)
(*   - a partial update (Partial<T>) is a record whose domain is the set   *)
(*     of fields that are present (not undefined);                         *)
(*   - a calendar date string "YYYY-MM-DD" is the triple <<Y, M, D>>; SQL  *)
(*     and JS string comparison of such strings is the lexicographic order *)
(*     of the triples;                                                     *)
(*   - timestamps are seconds (not milliseconds) since the Unix epoch so   *)
(*     that they stay inside the integers of the model checker;            *)
(*   - text is a tuple of one-character strings.                           *)
(***************************************************************************)
EXTENDS Integers, Sequences, FiniteSets, TLC

VARIABLES
    db,              \* the module-level handle: whether it holds a Database object,
                     \* the number of the Database object constructed last, and the
                     \* schema of the file fitwell.db that the object opens (the
                     \* column names of every table the file holds)
    users,           \* table users
    goals,           \* table goals
    daily_logs,      \* table daily_logs
    weight_entries,  \* table weight_entries
    settings,        \* table settings (at most the row id = 1)
    uuidCount,       \* number of uuidv4() values drawn so far
    now,             \* the wall clock, Date.now(), in seconds
    lastCall,        \* the last operation called: its arguments, its outcome, the
                     \* time of the call, the tables as it found them, how many
                     \* times in a row it has now been called, and the tables as
                     \* the first call of that row found them
    store,           \* the goal store of the renderer: its goals and its daily logs
                     \* keyed by date
    app,             \* the Electron application of main.ts: its platform, whether it
                     \* is ready, its windows, whether the IPC handlers are
                     \* registered, whether it has quit
    userStore,       \* the user store of the renderer: users, currentUser, settings,
                     \* isLoading, isSwitching, error
    pending,         \* the calls of the user store that wait at an await: for each
                     \* slot the call, the await it waits at, its place in the order
                     \* of the IPC replies, and its local variables
    weightStore      \* the weight store of the renderer: its entries

vars ==
    <<db, users, goals, daily_logs, weight_entries, settings, uuidCount, now, lastCall,
      store, app, userStore, pending, weightStore>>

\* the state outside the main process database module, which no call made to the
\* module directly touches
frontVars == <<store, app, userStore, pending, weightStore>>

\* the stores of the renderer
rendererVars == <<store, userStore, pending, weightStore>>

\* the state of the main process database module
backVars == <<db, users, goals, daily_logs, weight_entries, settings, uuidCount, now,
              lastCall>>

tables == <<users, goals, daily_logs, weight_entries, settings>>

-----------------------------------------------------------------------------
(* Bounds of the model *)

MaxUuid == 5        \* ids drawn in one behaviour of Spec
MaxTicks == 1       \* clock advances in one behaviour of Spec
MaxRun == 3         \* times in a row the same successful call is repeated
NumDates == 2       \* calendar days a caller of Spec may name
NumStreakDays == 6  \* length of the window of days of SpecStreak
NumOtherDays == 1   \* days of that window on which a second user logs the goal
MaxOpens == 2        \* Database objects constructed in one behaviour
MaxRoundTripGoals == 2 \* goals a user of SpecRoundTrip has, the default goal included
MaxPending == 2      \* calls of the user store that wait at an await at one time
MaxStoreGoals == 2   \* goals the goal store holds before it creates no further goal
MaxStreakTicks == 4 \* clock advances (half days) in one behaviour of SpecStreak

-----------------------------------------------------------------------------
(* Values *)

None == <<>>
Some(v) == <<v>>
IsSome(o) == o # None
Get(o) == o[1]

MissingId == 0      \* an id that names no row: ids drawn from uuidv4 start at 1

DAY == 86400        \* one day, 86400000 ms, in seconds

\* Math.max
Max(a, b) == IF a >= b THEN a ELSE b

-----------------------------------------------------------------------------
(* Calendar dates: new Date("YYYY-MM-DD").getTime() and                    *)
(* d.toISOString().split('T')[0], both in UTC                              *)

\* days since 1970-01-01 of the proleptic Gregorian date <<y, m, d>>
DaysFromCivil(date) ==
    LET y0  == date[1]
        m   == date[2]
        d   == date[3]
        y   == IF m <= 2 THEN y0 - 1 ELSE y0
        era == y \div 400
        yoe == y - era * 400
        mp  == IF m > 2 THEN m - 3 ELSE m + 9
        doy == (153 * mp + 2) \div 5 + d - 1
        doe == yoe * 365 + yoe \div 4 - yoe \div 100 + doy
    IN  era * 146097 + doe - 719468

\* the Gregorian date of a day number
CivilFromDays(z0) ==
    LET z   == z0 + 719468
        era == z \div 146097
        doe == z - era * 146097
        yoe == (doe - doe \div 1460 + doe \div 36524 - doe \div 146096) \div 365
        doy == doe - (365 * yoe + yoe \div 4 - yoe \div 100)
        mp  == (5 * doy + 2) \div 153
        d   == doy - (153 * mp + 2) \div 5 + 1
        m   == IF mp < 10 THEN mp + 3 ELSE mp - 9
        y   == yoe + era * 400
    IN  <<IF m <= 2 THEN y + 1 ELSE y, m, d>>

\* new Date(dateString).getTime()
DateGetTime(date) == DaysFromCivil(date) * DAY

\* new Date(t).toISOString().split('T')[0]
ISODate(t) == CivilFromDays(t \div DAY)

\* string comparison a <= b of two "YYYY-MM-DD" strings
DateLE(a, b) ==
    \/ a[1] < b[1]
    \/ a[1] = b[1] /\ a[2] < b[2]
    \/ a[1] = b[1] /\ a[2] = b[2] /\ a[3] <= b[3]

\* new Date(year, monthNum, 0).getDate(): the last day of month monthNum (1..12)
DaysInMonth(year, monthNum) ==
    LET ny == IF monthNum = 12 THEN year + 1 ELSE year
        nm == IF monthNum = 12 THEN 1 ELSE monthNum + 1
    IN  CivilFromDays(DaysFromCivil(<<ny, nm, 1>>) - 1)[3]

-----------------------------------------------------------------------------
(* Text *)

SPACE == " "

RECURSIVE TrimStart(_)
TrimStart(s) == IF s # <<>> /\ Head(s) = SPACE THEN TrimStart(Tail(s)) ELSE s

RECURSIVE TrimEnd(_)
TrimEnd(s) ==
    IF s # <<>> /\ s[Len(s)] = SPACE THEN TrimEnd(SubSeq(s, 1, Len(s) - 1)) ELSE s

\* String.prototype.trim
Trim(s) == TrimEnd(TrimStart(s))

\* `${firstName} ${lastName}`.trim()
DisplayName(firstName, lastName) == Trim(firstName \o <<SPACE>> \o lastName)

-----------------------------------------------------------------------------
(* Schema: CHECK, NOT NULL, UNIQUE and FOREIGN KEY clauses of SCHEMA, with *)
(* PRAGMA foreign_keys = ON                                                *)

GoalTypes == {"workout", "weight", "custom"}
Frequencies == {"daily", "weekly"}
WeightUnits == {"lbs", "kg"}
Themes == {"light", "dark", "system"}
FirstDays == {0, 1}

UserIds == {u.id : u \in users}
GoalIds == {g.id : g \in goals}

\* CREATE TABLE users: id PRIMARY KEY
UsersInsertOk(row) == row.id \notin UserIds

\* CREATE TABLE goals: PRIMARY KEY, CHECK (type), CHECK (frequency), FOREIGN KEY (user_id)
GoalsInsertOk(row) ==
    /\ row.id \notin GoalIds
    /\ row.type \in GoalTypes
    /\ row.frequency \in Frequencies
    /\ row.user_id \in UserIds

\* CREATE TABLE daily_logs: UNIQUE (user_id, goal_id, date)
DailyLogsUniqueOk(row) ==
    ~ \E l \in daily_logs :
        l.user_id = row.user_id /\ l.goal_id = row.goal_id /\ l.date = row.date

\* CREATE TABLE daily_logs: PRIMARY KEY, both FOREIGN KEYs, UNIQUE
\* daily_logs with foreign_keys = OFF
DailyLogsInsertOk_NoForeignKeys(row) ==
    /\ row.id \notin {l.id : l \in daily_logs}
    /\ DailyLogsUniqueOk(row)

DailyLogsInsertOk(row) ==
    /\ row.id \notin {l.id : l \in daily_logs}
    /\ row.user_id \in UserIds
    /\ row.goal_id \in GoalIds
    /\ DailyLogsUniqueOk(row)

\* weight_entries without UNIQUE (user_id, date)
WeightEntriesConflicts_IdOnly(row) == {w \in weight_entries : w.id = row.id}

\* CREATE TABLE weight_entries: the rows a new row collides with on PRIMARY KEY
\* or UNIQUE (user_id, date); INSERT OR REPLACE deletes them
WeightEntriesConflicts(row) ==
    {w \in weight_entries :
        \/ w.id = row.id
        \/ w.user_id = row.user_id /\ w.date = row.date}

\* CREATE TABLE weight_entries: CHECK (unit), FOREIGN KEY (user_id)
WeightEntriesInsertOk(row) ==
    /\ row.unit \in WeightUnits
    /\ row.user_id \in UserIds

\* CREATE TABLE settings: CHECKs and FOREIGN KEY (last_active_user_id)
SettingsRowOk(row) ==
    /\ row.weight_unit \in WeightUnits
    /\ row.theme \in Themes
    /\ row.first_day_of_week \in FirstDays
    /\ (IsSome(row.last_active_user_id) => Get(row.last_active_user_id) \in UserIds)

\* the tables of SCHEMA and the column names of each
TableNames == {"users", "goals", "daily_logs", "weight_entries", "settings"}

SCHEMA ==
    [t \in TableNames |->
        CASE t = "users" ->
                {"id", "name", "first_name", "last_name", "birthday", "profile_photo",
                 "avatar_color", "created_at"}
          [] t = "goals" ->
                {"id", "user_id", "name", "type", "frequency", "target_value", "unit",
                 "is_active", "created_at", "updated_at"}
          [] t = "daily_logs" ->
                {"id", "user_id", "goal_id", "date", "completed", "value", "notes",
                 "created_at", "updated_at"}
          [] t = "weight_entries" ->
                {"id", "user_id", "date", "weight", "unit", "notes", "created_at"}
          [] t = "settings" ->
                {"id", "last_active_user_id", "weight_unit", "theme",
                 "first_day_of_week"}]

\* the columns of users that initDatabase adds to a file written before they were
\* part of SCHEMA
MigratedColumns == {"first_name", "last_name", "birthday", "profile_photo"}

\* no file fitwell.db yet: a Database object constructed on it holds no table
NoFile == [t \in {} |-> {}]

\* the row of INSERT OR IGNORE INTO settings (id) VALUES (1), with the column defaults
DefaultSettingsRow ==
    [id |-> 1, last_active_user_id |-> None, weight_unit |-> "lbs",
     theme |-> "light", first_day_of_week |-> 0]


\* goals.user_id without ON DELETE CASCADE and without enforcement
CascadeGoals_NoCascade(deletedUsers) == goals

\* goals.user_id REFERENCES users(id) ON DELETE CASCADE
CascadeGoals(deletedUsers) == {g \in goals : g.user_id \notin deletedUsers}


\* daily_logs.goal_id without ON DELETE CASCADE
CascadeDailyLogs_UserOnly(deletedUsers, deletedGoals) ==
    {l \in daily_logs : l.user_id \notin deletedUsers}

\* daily_logs.user_id REFERENCES users(id) ON DELETE CASCADE,
\* daily_logs.goal_id REFERENCES goals(id) ON DELETE CASCADE
CascadeDailyLogs(deletedUsers, deletedGoals) ==
    {l \in daily_logs : l.user_id \notin deletedUsers /\ l.goal_id \notin deletedGoals}

\* weight_entries.user_id without ON DELETE CASCADE and without enforcement
CascadeWeightEntries_NoCascade(deletedUsers) == weight_entries

\* weight_entries.user_id REFERENCES users(id) ON DELETE CASCADE
CascadeWeightEntries(deletedUsers) ==
    {w \in weight_entries : w.user_id \notin deletedUsers}


\* settings.last_active_user_id without ON DELETE SET NULL
SetNullSettings_Keep(deletedUsers) == settings

\* settings.last_active_user_id REFERENCES users(id) ON DELETE SET NULL
SetNullSettings(deletedUsers) ==
    {IF IsSome(s.last_active_user_id) /\ Get(s.last_active_user_id) \in deletedUsers
        THEN [s EXCEPT !.last_active_user_id = None]
        ELSE s : s \in settings}

-----------------------------------------------------------------------------
(* The outcome of a call *)

NOT_INITIALIZED == "Database not initialized. Call initDatabase() first."
NO_UPDATES == "No updates provided"
CONSTRAINT == "SQLITE_CONSTRAINT"
TYPE_ERROR == "TypeError"
DUPLICATE_COLUMN == "duplicate column name"

\* the tables as a call finds them
Snapshot ==
    [users |-> users, goals |-> goals, daily_logs |-> daily_logs,
     weight_entries |-> weight_entries, settings |-> settings]

\* the last call was the same successful call
Repeats(op, args) == lastCall.op = op /\ lastCall.ok /\ lastCall.args = args

\* how many calls in a row, this one included, are the same successful call
RunOf(op, args) == IF Repeats(op, args) THEN lastCall.run + 1 ELSE 1

Returns(op, args, value) ==
    /\ RunOf(op, args) <= MaxRun
    /\ lastCall' = [op |-> op, args |-> args, ok |-> TRUE, ret |-> value, at |-> now,
                    pre |-> Snapshot, run |-> RunOf(op, args),
                    start |-> IF Repeats(op, args) THEN lastCall.start ELSE Snapshot]

Throws(op, args, error) ==
    lastCall' = [op |-> op, args |-> args, ok |-> FALSE, ret |-> error, at |-> now,
                 pre |-> Snapshot, run |-> 0, start |-> Snapshot]

\* getDatabase(): the handle, or the throw of every operation called without one
Initialized == db.open

\* an operation called while no handle is open throws and changes nothing
FailsClosed(op, args) ==
    /\ ~Initialized
    /\ Throws(op, args, NOT_INITIALIZED)
    /\ UNCHANGED <<db, tables, uuidCount, now>>

-----------------------------------------------------------------------------
(* Inputs *)

\* the first day a caller names, and the calendar days of a window of n days
BaseDate == <<2024, 5, 31>>
Window(n) == {CivilFromDays(DaysFromCivil(BaseDate) + i) : i \in 0 .. n - 1}
Dates == Window(NumDates)

\* the clock when the application starts: 2024-06-01T00:00:00Z
StartTime == DateGetTime(BaseDate) + DAY

FirstNames == {<<"A">>, <<>>}
LastNames == {<<"B">>}
AvatarColors == {"#6366f1"}
CreateUserInputs ==
    [firstName : FirstNames, lastName : LastNames, birthday : {None},
     profilePhoto : {None}, avatarColor : AvatarColors]

UserPatches ==
    {<<>>, [firstName |-> <<"C">>], [name |-> <<"X">>, lastName |-> <<"D">>]}

CreateGoalInputs(userIds) ==
    [userId : userIds, name : {<<"R">>}, type : {"custom"}, frequency : {"weekly"},
     targetValue : {None}, unit : {None}, isActive : BOOLEAN]

GoalPatches == {<<>>, [isActive |-> FALSE], [isActive |-> TRUE]}

DailyLogPatches == {<<>>, [completed |-> FALSE], [notes |-> Some(<<"n">>)]}

AddWeightInputs(userIds) ==
    [userId : userIds, date : Dates, weight : {70, 71}, unit : WeightUnits,
     notes : {None, Some(<<"n">>)}]

SettingsPatches(userIds) ==
    {<<>>, [theme |-> "dark"]}
        \cup {[lastActiveUserId |-> Some(u)] : u \in userIds}
        \cup {[lastActiveUserId |-> None]}

-----------------------------------------------------------------------------
(* The goal store of the renderer (renderer/stores/goalStore.ts) before any call: *)
(* goals is an array, dailyLogs a Map from a date to an array of logs, streaks a  *)
(* Map from a goal id to a Streak. The view fields selectedMonth, isLoading and    *)
(* error are left out: no operation modelled reads them.                          *)

initialState == [goals |-> <<>>, dailyLogs |-> <<>>, streaks |-> <<>>]

\* the user store of the renderer (renderer/stores/userStore.ts) before any call
UserStoreInitial ==
    [users |-> <<>>, currentUser |-> None, settings |-> None, isLoading |-> TRUE,
     isSwitching |-> FALSE, error |-> None]

\* a slot in which no call waits
NoCall == [call |-> "none", pc |-> "done", ticket |-> 0, id |-> 0, val |-> <<>>,
           ok |-> TRUE]

Slots == 1 .. MaxPending

NoCalls == [slot \in Slots |-> NoCall]

\* the weight store of the renderer (renderer/stores/weightStore.ts) before any call;
\* isLoading and error are left out: no operation modelled reads them
WeightStoreInitial == [entries |-> <<>>]

\* the application before its ready event; process.platform is read when the first
\* event is handled
NotStarted ==
    [platform |-> "unread", ready |-> FALSE, windows |-> 0, handlers |-> FALSE,
     quit |-> FALSE]

-----------------------------------------------------------------------------
(* Lifecycle *)

Init ==
    /\ db = [open |-> FALSE, handle |-> 0, schema |-> NoFile]
    /\ users = {}
    /\ goals = {}
    /\ daily_logs = {}
    /\ weight_entries = {}
    /\ settings = {}
    /\ uuidCount = 0
    /\ now = StartTime
    /\ lastCall = [op |-> "none", args |-> <<>>, ok |-> TRUE, ret |-> None,
                   at |-> StartTime, pre |-> Snapshot, run |-> 0, start |-> Snapshot]
    /\ store = initialState
    /\ app = NotStarted
    /\ userStore = UserStoreInitial
    /\ pending = NoCalls
    /\ weightStore = WeightStoreInitial


\* db.exec(SCHEMA): CREATE TABLE IF NOT EXISTS creates the tables the file does not
\* hold and leaves a table the file holds with the columns it has
CreateTablesIfNotExists(schema) ==
    [t \in TableNames |-> IF t \in DOMAIN schema THEN schema[t] ELSE SCHEMA[t]]

\* a migration that adds a column whether or not the table has it
NeedsColumn_Always(columnNames, column) == TRUE

\* !columnNames.includes(column)
NeedsColumn(columnNames, column) == column \notin columnNames

\* the columns the four migration steps add to users, columnNames being read once
\* before the first step
ColumnsToAdd(schema) == {c \in MigratedColumns : NeedsColumn(schema["users"], c)}

\* ALTER TABLE users ADD COLUMN fails for a column the table has
MigrationThrows(schema) == ColumnsToAdd(schema) \cap schema["users"] # {}

Migrated(schema) == [schema EXCEPT !["users"] = @ \cup ColumnsToAdd(schema)]

\* INSERT OR IGNORE INTO settings (id) VALUES (1)
SettingsEnsured == IF settings # {} THEN settings ELSE {DefaultSettingsRow}

\* an initDatabase that constructs a Database object and runs the schema with a
\* fresh settings row on every call
initDatabase_Reopen ==
    /\ db.handle < MaxOpens
    /\ db' = [open |-> TRUE, handle |-> db.handle + 1,
              schema |-> Migrated(CreateTablesIfNotExists(db.schema))]
    /\ settings' = {DefaultSettingsRow}
    /\ Returns("initDatabase", <<>>, db.handle + 1)
    /\ UNCHANGED <<users, goals, daily_logs, weight_entries, uuidCount, now>>

\* initDatabase(): reuse the open handle, or construct a Database object on the file
\* and run SCHEMA, the four column migrations of users and the empty SEED_DATA. A
\* failing migration step throws after db was assigned and SCHEMA was run
initDatabase ==
    /\ Initialized \/ db.handle < MaxOpens
    /\ IF Initialized
       THEN /\ Returns("initDatabase", <<>>, db.handle)
            /\ UNCHANGED <<db, settings>>
       ELSE LET created == CreateTablesIfNotExists(db.schema)
            IN  /\ settings' = SettingsEnsured
                /\ IF MigrationThrows(created)
                   THEN /\ db' = [open |-> TRUE, handle |-> db.handle + 1,
                                  schema |-> created]
                        /\ Throws("initDatabase", <<>>, DUPLICATE_COLUMN)
                   ELSE /\ db' = [open |-> TRUE, handle |-> db.handle + 1,
                                  schema |-> Migrated(created)]
                        /\ Returns("initDatabase", <<>>, db.handle + 1)
    /\ UNCHANGED <<users, goals, daily_logs, weight_entries, uuidCount, now>>

closeDatabase ==
    /\ db' = [db EXCEPT !.open = FALSE]
    /\ Returns("closeDatabase", <<>>, None)
    /\ UNCHANGED <<tables, uuidCount, now>>

\* the wall clock advances by half a day
Tick ==
    /\ now < StartTime + MaxTicks * (DAY \div 2)
    /\ now' = now + DAY \div 2
    /\ UNCHANGED <<db, tables, uuidCount, lastCall>>

-----------------------------------------------------------------------------
(* User operations *)

\* the row -> User mapping of getUsers and updateUser
UserOf(row) ==
    [id |-> row.id, name |-> row.name, firstName |-> row.first_name,
     lastName |-> row.last_name, birthday |-> row.birthday,
     profilePhoto |-> row.profile_photo, avatarColor |-> row.avatar_color,
     createdAt |-> row.created_at]

\* a default goal that starts paused
DefaultGoalRow_Paused(goalId, userId, t) ==
    [id |-> goalId, user_id |-> userId, name |-> <<"W", "o", "r", "k", "o", "u", "t">>,
     type |-> "workout", frequency |-> "daily", target_value |-> None, unit |-> None,
     is_active |-> 0, created_at |-> t, updated_at |-> t]

\* the default goal createUser inserts
DefaultGoalRow(goalId, userId, t) ==
    [id |-> goalId, user_id |-> userId, name |-> <<"W", "o", "r", "k", "o", "u", "t">>,
     type |-> "workout", frequency |-> "daily", target_value |-> None, unit |-> None,
     is_active |-> 1, created_at |-> t, updated_at |-> t]

\* getUsers(), as the set of the users returned (ORDER BY created_at left out)
getUsers == {UserOf(row) : row \in users}

createUser(data) ==
    LET id == uuidCount + 1
        goalId == uuidCount + 2
        name == DisplayName(data.firstName, data.lastName)
        row == [id |-> id, name |-> name, first_name |-> Some(data.firstName),
                last_name |-> Some(data.lastName), birthday |-> data.birthday,
                profile_photo |-> data.profilePhoto, avatar_color |-> data.avatarColor,
                created_at |-> now]
    IN  \/ FailsClosed("createUser", <<data>>)
        \/ /\ Initialized
           /\ uuidCount + 2 <= MaxUuid
           /\ UsersInsertOk(row)
           /\ users' = users \cup {row}
           /\ goals' = goals \cup {DefaultGoalRow(goalId, id, now)}
           /\ uuidCount' = uuidCount + 2
           /\ Returns("createUser", <<data>>,
                [id |-> id, name |-> name, firstName |-> Some(data.firstName),
                 lastName |-> Some(data.lastName), birthday |-> data.birthday,
                 profilePhoto |-> data.profilePhoto, avatarColor |-> data.avatarColor,
                 createdAt |-> now])
           /\ UNCHANGED <<db, daily_logs, weight_entries, settings, now>>

\* the SET clauses of updateUser: the present fields, and name recomputed from the
\* resulting first and last name unless a name clause is already there
UpdateUserRow(row, updates) ==
    LET has(f) == f \in DOMAIN updates
        firstName == IF has("firstName") THEN updates.firstName
                     ELSE IF IsSome(row.first_name) THEN Get(row.first_name) ELSE <<>>
        lastName == IF has("lastName") THEN updates.lastName
                    ELSE IF IsSome(row.last_name) THEN Get(row.last_name) ELSE <<>>
        newName == DisplayName(firstName, lastName)
    IN  [row EXCEPT
            !.name = IF has("name") THEN updates.name
                     ELSE IF has("firstName") \/ has("lastName") THEN newName ELSE @,
            !.first_name = IF has("firstName") THEN Some(updates.firstName) ELSE @,
            !.last_name = IF has("lastName") THEN Some(updates.lastName) ELSE @,
            !.birthday = IF has("birthday") THEN updates.birthday ELSE @,
            !.profile_photo = IF has("profilePhoto") THEN updates.profilePhoto ELSE @,
            !.avatar_color = IF has("avatarColor") THEN updates.avatarColor ELSE @]

\* updateUser without the check of setClauses.length: an empty patch is a no-op
updateUser_EmptyPatchAllowed(id, updates) ==
    LET args == <<id, updates>>
        found == {u \in users : u.id = id}
    IN  \/ FailsClosed("updateUser", args)
        \/ /\ Initialized
           /\ found = {}
           /\ Throws("updateUser", args, TYPE_ERROR)
           /\ UNCHANGED <<db, tables, uuidCount, now>>
        \/ /\ Initialized
           /\ found # {}
           /\ LET row == CHOOSE u \in found : TRUE
                  new == UpdateUserRow(row, updates)
              IN  /\ users' = (users \ {row}) \cup {new}
                  /\ Returns("updateUser", args, UserOf(new))
           /\ UNCHANGED <<db, goals, daily_logs, weight_entries, settings, uuidCount, now>>

updateUser(id, updates) ==
    LET args == <<id, updates>>
        found == {u \in users : u.id = id}
    IN  \/ /\ DOMAIN updates = {}
           /\ Throws("updateUser", args, NO_UPDATES)
           /\ UNCHANGED <<db, tables, uuidCount, now>>
        \/ /\ DOMAIN updates # {}
           /\ FailsClosed("updateUser", args)
        \/ /\ DOMAIN updates # {}
           /\ Initialized
           /\ found = {}
           \* current (or the row read back) is undefined: reading a field of it throws
           /\ Throws("updateUser", args, TYPE_ERROR)
           /\ UNCHANGED <<db, tables, uuidCount, now>>
        \/ /\ DOMAIN updates # {}
           /\ Initialized
           /\ found # {}
           /\ LET row == CHOOSE u \in found : TRUE
                  new == UpdateUserRow(row, updates)
              IN  /\ users' = (users \ {row}) \cup {new}
                  /\ Returns("updateUser", args, UserOf(new))
           /\ UNCHANGED <<db, goals, daily_logs, weight_entries, settings, uuidCount, now>>

deleteUser(id) ==
    \/ FailsClosed("deleteUser", <<id>>)
    \/ /\ Initialized
       /\ users' = {u \in users : u.id # id}
       /\ goals' = CascadeGoals({u.id : u \in users \ users'})
       /\ daily_logs' = CascadeDailyLogs({u.id : u \in users \ users'},
                                         {g.id : g \in goals \ goals'})
       /\ weight_entries' = CascadeWeightEntries({u.id : u \in users \ users'})
       /\ settings' = SetNullSettings({u.id : u \in users \ users'})
       /\ Returns("deleteUser", <<id>>, None)
       /\ UNCHANGED <<db, uuidCount, now>>

-----------------------------------------------------------------------------
(* Goal operations *)

\* the row -> Goal mapping of getGoals and updateGoal
\* a row mapping that reports every goal as active
GoalOf_AlwaysActive(row) ==
    [id |-> row.id, userId |-> row.user_id, name |-> row.name, type |-> row.type,
     frequency |-> row.frequency, targetValue |-> row.target_value, unit |-> row.unit,
     isActive |-> TRUE, createdAt |-> row.created_at, updatedAt |-> row.updated_at]

GoalOf(row) ==
    [id |-> row.id, userId |-> row.user_id, name |-> row.name, type |-> row.type,
     frequency |-> row.frequency, targetValue |-> row.target_value, unit |-> row.unit,
     isActive |-> (row.is_active = 1), createdAt |-> row.created_at,
     updatedAt |-> row.updated_at]

\* getGoals(userId), as the set of the goals returned (ORDER BY created_at left out)
getGoals(userId) == {GoalOf(g) : g \in {r \in goals : r.user_id = userId}}

createGoal(goal) ==
    LET id == uuidCount + 1
        row == [id |-> id, user_id |-> goal.userId, name |-> goal.name,
                type |-> goal.type, frequency |-> goal.frequency,
                target_value |-> goal.targetValue, unit |-> goal.unit,
                is_active |-> IF goal.isActive THEN 1 ELSE 0,
                created_at |-> now, updated_at |-> now]
    IN  \/ FailsClosed("createGoal", <<goal>>)
        \/ /\ Initialized
           /\ ~GoalsInsertOk(row)
           /\ Throws("createGoal", <<goal>>, CONSTRAINT)
           /\ UNCHANGED <<db, tables, uuidCount, now>>
        \/ /\ Initialized
           /\ GoalsInsertOk(row)
           /\ uuidCount + 1 <= MaxUuid
           /\ goals' = goals \cup {row}
           /\ uuidCount' = uuidCount + 1
           \* { ...goal, id, createdAt, updatedAt }
           /\ Returns("createGoal", <<goal>>,
                [id |-> id, userId |-> goal.userId, name |-> goal.name,
                 type |-> goal.type, frequency |-> goal.frequency,
                 targetValue |-> goal.targetValue, unit |-> goal.unit,
                 isActive |-> goal.isActive, createdAt |-> now, updatedAt |-> now])
           /\ UNCHANGED <<db, users, daily_logs, weight_entries, settings, now>>

\* an UPDATE that binds every column, NULL or empty for a field that is not present
UpdateGoalRow_AllColumns(row, updates, t) ==
    LET has(f) == f \in DOMAIN updates
    IN  [row EXCEPT
            !.updated_at = t,
            !.name = IF has("name") THEN updates.name ELSE <<>>,
            !.target_value = IF has("targetValue") THEN updates.targetValue ELSE None,
            !.unit = IF has("unit") THEN updates.unit ELSE None,
            !.is_active = IF has("isActive")
                          THEN (IF updates.isActive THEN 1 ELSE 0) ELSE 0]

\* the SET clauses of updateGoal: updated_at and the present fields
UpdateGoalRow(row, updates, t) ==
    LET has(f) == f \in DOMAIN updates
    IN  [row EXCEPT
            !.updated_at = t,
            !.name = IF has("name") THEN updates.name ELSE @,
            !.type = IF has("type") THEN updates.type ELSE @,
            !.frequency = IF has("frequency") THEN updates.frequency ELSE @,
            !.target_value = IF has("targetValue") THEN updates.targetValue ELSE @,
            !.unit = IF has("unit") THEN updates.unit ELSE @,
            !.is_active = IF has("isActive")
                          THEN (IF updates.isActive THEN 1 ELSE 0) ELSE @]

updateGoal(id, updates) ==
    LET args == <<id, updates>>
        found == {g \in goals : g.id = id}
    IN  \/ FailsClosed("updateGoal", args)
        \/ /\ Initialized
           /\ found = {}
           \* UPDATE matches no row, the row read back is undefined
           /\ Throws("updateGoal", args, TYPE_ERROR)
           /\ UNCHANGED <<db, tables, uuidCount, now>>
        \/ /\ Initialized
           /\ found # {}
           /\ LET row == CHOOSE g \in found : TRUE
                  new == UpdateGoalRow(row, updates, now)
              IN  /\ goals' = (goals \ {row}) \cup {new}
                  /\ Returns("updateGoal", args, GoalOf(new))
           /\ UNCHANGED <<db, users, daily_logs, weight_entries, settings, uuidCount, now>>

deleteGoal(id) ==
    \/ FailsClosed("deleteGoal", <<id>>)
    \/ /\ Initialized
       /\ goals' = {g \in goals : g.id # id}
       /\ daily_logs' = CascadeDailyLogs({}, {g.id : g \in goals \ goals'})
       /\ Returns("deleteGoal", <<id>>, None)
       /\ UNCHANGED <<db, users, weight_entries, settings, uuidCount, now>>

-----------------------------------------------------------------------------
(* Daily log operations *)

\* the row -> DailyLog mapping
DailyLogOf(row) ==
    [id |-> row.id, userId |-> row.user_id, goalId |-> row.goal_id, date |-> row.date,
     completed |-> (row.completed = 1), value |-> row.value, notes |-> row.notes,
     createdAt |-> row.created_at, updatedAt |-> row.updated_at]

\* the logs of every user in the range
getDailyLogs_AnyUser(userId, startDate, endDate) ==
    {DailyLogOf(l) : l \in {r \in daily_logs :
        DateLE(startDate, r.date) /\ DateLE(r.date, endDate)}}

\* getDailyLogs(userId, startDate, endDate), as the set of the logs returned
getDailyLogs(userId, startDate, endDate) ==
    {DailyLogOf(l) : l \in {r \in daily_logs :
        r.user_id = userId /\ DateLE(startDate, r.date) /\ DateLE(r.date, endDate)}}

\* the rows SELECT * FROM daily_logs WHERE user_id = ? AND goal_id = ? AND date = ? matches
LogRowsForDate(userId, goalId, date) ==
    {l \in daily_logs : l.user_id = userId /\ l.goal_id = goalId /\ l.date = date}

\* getLogForDate(userId, goalId, date): Some(log) or None (null)
getLogForDate(userId, goalId, date) ==
    LET rows == LogRowsForDate(userId, goalId, date)
    IN  IF rows = {} THEN None ELSE Some(DailyLogOf(CHOOSE l \in rows : TRUE))


\* the UPDATE of toggleDailyLog without updated_at = ?
SetCompleted_KeepStamp(row, completed, t) == [row EXCEPT !.completed = completed]

\* UPDATE daily_logs SET completed = ?, updated_at = ? WHERE id = ?, on the row matched
SetCompleted(row, completed, t) ==
    [row EXCEPT !.completed = completed, !.updated_at = t]

\* toggleDailyLog without the lookup, on a table without the UNIQUE clause
toggleDailyLog_InsertAlways(userId, goalId, date) ==
    LET args == <<userId, goalId, date>>
        row == [id |-> uuidCount + 1, user_id |-> userId, goal_id |-> goalId,
                date |-> date, completed |-> 1, value |-> None, notes |-> None,
                created_at |-> now, updated_at |-> now]
    IN  /\ Initialized
        /\ row.user_id \in UserIds
        /\ row.goal_id \in GoalIds
        /\ uuidCount + 1 <= MaxUuid
        /\ daily_logs' = daily_logs \cup {row}
        /\ uuidCount' = uuidCount + 1
        /\ Returns("toggleDailyLog", args, DailyLogOf(row))
        /\ UNCHANGED <<db, users, goals, weight_entries, settings, now>>

toggleDailyLog(userId, goalId, date) ==
    LET args == <<userId, goalId, date>>
        existing == getLogForDate(userId, goalId, date)
    IN  \/ FailsClosed("toggleDailyLog", args)
        \/ /\ Initialized
           /\ IsSome(existing)
           /\ LET newCompleted == ~Get(existing).completed
              IN  /\ daily_logs' =
                        {IF l.id = Get(existing).id
                            THEN SetCompleted(l, IF newCompleted THEN 1 ELSE 0, now)
                            ELSE l : l \in daily_logs}
                  /\ Returns("toggleDailyLog", args,
                        [Get(existing) EXCEPT !.completed = newCompleted,
                                              !.updatedAt = now])
           /\ UNCHANGED <<db, users, goals, weight_entries, settings, uuidCount, now>>
        \/ /\ Initialized
           /\ ~IsSome(existing)
           /\ LET row == [id |-> uuidCount + 1, user_id |-> userId, goal_id |-> goalId,
                          date |-> date, completed |-> 1, value |-> None, notes |-> None,
                          created_at |-> now, updated_at |-> now]
              IN  \/ /\ ~DailyLogsInsertOk(row)
                     /\ Throws("toggleDailyLog", args, CONSTRAINT)
                     /\ UNCHANGED <<db, tables, uuidCount, now>>
                  \/ /\ DailyLogsInsertOk(row)
                     /\ uuidCount + 1 <= MaxUuid
                     /\ daily_logs' = daily_logs \cup {row}
                     /\ uuidCount' = uuidCount + 1
                     /\ Returns("toggleDailyLog", args, DailyLogOf(row))
                     /\ UNCHANGED <<db, users, goals, weight_entries, settings, now>>

\* the SET clauses of updateDailyLog: updated_at and the present fields
UpdateDailyLogRow(row, updates, t) ==
    LET has(f) == f \in DOMAIN updates
    IN  [row EXCEPT
            !.updated_at = t,
            !.completed = IF has("completed")
                          THEN (IF updates.completed THEN 1 ELSE 0) ELSE @,
            !.value = IF has("value") THEN updates.value ELSE @,
            !.notes = IF has("notes") THEN updates.notes ELSE @]

updateDailyLog(id, updates) ==
    LET args == <<id, updates>>
        found == {l \in daily_logs : l.id = id}
    IN  \/ FailsClosed("updateDailyLog", args)
        \/ /\ Initialized
           /\ found = {}
           /\ Throws("updateDailyLog", args, TYPE_ERROR)
           /\ UNCHANGED <<db, tables, uuidCount, now>>
        \/ /\ Initialized
           /\ found # {}
           /\ LET row == CHOOSE l \in found : TRUE
                  new == UpdateDailyLogRow(row, updates, now)
              IN  /\ daily_logs' = (daily_logs \ {row}) \cup {new}
                  /\ Returns("updateDailyLog", args, DailyLogOf(new))
           /\ UNCHANGED <<db, users, goals, weight_entries, settings, uuidCount, now>>

-----------------------------------------------------------------------------
(* Weight operations *)

\* the row -> WeightEntry mapping of getWeightEntries
WeightEntryOf(row) ==
    [id |-> row.id, userId |-> row.user_id, date |-> row.date, weight |-> row.weight,
     unit |-> row.unit, notes |-> row.notes, createdAt |-> row.created_at]

\* getWeightEntries(userId) without a date range, as the set of the entries returned
getWeightEntries(userId) ==
    {WeightEntryOf(row) : row \in {w \in weight_entries : w.user_id = userId}}

addWeightEntry(entry) ==
    LET row == [id |-> uuidCount + 1, user_id |-> entry.userId, date |-> entry.date,
                weight |-> entry.weight, unit |-> entry.unit, notes |-> entry.notes,
                created_at |-> now]
    IN  \/ FailsClosed("addWeightEntry", <<entry>>)
        \/ /\ Initialized
           /\ ~WeightEntriesInsertOk(row)
           /\ Throws("addWeightEntry", <<entry>>, CONSTRAINT)
           /\ UNCHANGED <<db, tables, uuidCount, now>>
        \/ /\ Initialized
           /\ WeightEntriesInsertOk(row)
           /\ uuidCount + 1 <= MaxUuid
           \* INSERT OR REPLACE
           /\ weight_entries' = (weight_entries \ WeightEntriesConflicts(row)) \cup {row}
           /\ uuidCount' = uuidCount + 1
           /\ Returns("addWeightEntry", <<entry>>,
                [id |-> row.id, userId |-> entry.userId, date |-> entry.date,
                 weight |-> entry.weight, unit |-> entry.unit, notes |-> entry.notes,
                 createdAt |-> now])
           /\ UNCHANGED <<db, users, goals, daily_logs, settings, now>>

deleteWeightEntry(id) ==
    \/ FailsClosed("deleteWeightEntry", <<id>>)
    \/ /\ Initialized
       /\ weight_entries' = {w \in weight_entries : w.id # id}
       /\ Returns("deleteWeightEntry", <<id>>, None)
       /\ UNCHANGED <<db, users, goals, daily_logs, settings, uuidCount, now>>

-----------------------------------------------------------------------------
(* Settings *)

\* the row -> AppSettings mapping of getSettings
SettingsOf(row) ==
    [lastActiveUserId |-> row.last_active_user_id, weightUnit |-> row.weight_unit,
     theme |-> row.theme, firstDayOfWeek |-> row.first_day_of_week]

\* getSettings(): the settings row as AppSettings
getSettings == SettingsOf(CHOOSE row \in settings : row.id = 1)

\* the SET clauses of updateSettings: the present fields
UpdateSettingsRow(row, updates) ==
    LET has(f) == f \in DOMAIN updates
    IN  [row EXCEPT
            !.last_active_user_id = IF has("lastActiveUserId")
                                    THEN updates.lastActiveUserId ELSE @,
            !.weight_unit = IF has("weightUnit") THEN updates.weightUnit ELSE @,
            !.theme = IF has("theme") THEN updates.theme ELSE @,
            !.first_day_of_week = IF has("firstDayOfWeek")
                                  THEN updates.firstDayOfWeek ELSE @]

updateSettings(updates) ==
    \/ FailsClosed("updateSettings", <<updates>>)
    \/ /\ Initialized
       /\ LET row == CHOOSE s \in settings : s.id = 1
              new == UpdateSettingsRow(row, updates)
          IN  \/ /\ ~SettingsRowOk(new)
                 /\ Throws("updateSettings", <<updates>>, CONSTRAINT)
                 /\ UNCHANGED <<db, tables, uuidCount, now>>
              \/ /\ SettingsRowOk(new)
                 /\ settings' = {new}
                 /\ Returns("updateSettings", <<updates>>, SettingsOf(new))
                 /\ UNCHANGED <<db, users, goals, daily_logs, weight_entries,
                                uuidCount, now>>

-----------------------------------------------------------------------------
(* Computed data *)

\* the rows of SELECT date FROM daily_logs WHERE goal_id = ? AND completed = 1
CompletedRows(goalId) == {l \in daily_logs : l.goal_id = goalId /\ l.completed = 1}

\* ORDER BY date DESC, then rows.map((r) => r.date): one entry per row
RECURSIVE DatesDesc(_)
DatesDesc(rows) ==
    IF rows = {} THEN <<>>
    ELSE LET top == CHOOSE r \in rows : \A q \in rows : DateLE(q.date, r.date)
         IN  <<top.date>> \o DatesDesc(rows \ {top})


\* the anchor of the current streak without the today-or-yesterday test
CheckDate_NoRecency(dates, t) == Some(dates[1])

\* dates[0] if it is today or yesterday, else null
CheckDate(dates, t) ==
    LET today == ISODate(t)
        yesterday == ISODate(t - DAY)
    IN  IF dates[1] = today \/ dates[1] = yesterday THEN Some(dates[1]) ELSE None


\* the current streak as the number of completed dates, gaps ignored
WalkBack_CountAll(dateSet, d) == Cardinality(dateSet)

\* while (dateSet.has(d.toISOString().split('T')[0])) { currentStreak++; d = d - 1 day }
RECURSIVE WalkBack(_, _)
WalkBack(dateSet, d) ==
    IF ISODate(d) \in dateSet THEN 1 + WalkBack(dateSet, d - DAY) ELSE 0

CurrentStreak(dates, t) ==
    LET checkDate == CheckDate(dates, t)
        dateSet == {dates[i] : i \in 1 .. Len(dates)}
    IN  IF IsSome(checkDate) THEN WalkBack(dateSet, DateGetTime(Get(checkDate))) ELSE 0

\* the for loop of getStreak from index i (dates[i] here is dates[i - 1] there),
\* and the Math.max after it
RECURSIVE LongestLoop(_, _, _, _)
LongestLoop(dates, i, longestStreak, tempStreak) ==
    IF i > Len(dates) THEN Max(longestStreak, tempStreak)
    ELSE IF DateGetTime(dates[i - 1]) - DateGetTime(dates[i]) = DAY
         THEN LongestLoop(dates, i + 1, longestStreak, tempStreak + 1)
         ELSE LongestLoop(dates, i + 1, Max(longestStreak, tempStreak), 1)

LongestStreak(dates) == LongestLoop(dates, 2, 0, 1)

\* the Streak getStreak(goalId) computes at time t from the rows its query selects
StreakOfRows(rows, goalId, t) ==
    LET dates == DatesDesc(rows)
    IN  IF Len(dates) = 0
        THEN [goalId |-> goalId, currentStreak |-> 0, longestStreak |-> 0,
              lastCompletedDate |-> None]
        ELSE [goalId |-> goalId, currentStreak |-> CurrentStreak(dates, t),
              longestStreak |-> LongestStreak(dates),
              lastCompletedDate |-> Some(dates[1])]

\* the Streak getStreak(goalId) computes at time t
StreakOf(goalId, t) == StreakOfRows(CompletedRows(goalId), goalId, t)

getStreak(goalId) ==
    \/ FailsClosed("getStreak", <<goalId>>)
    \/ /\ Initialized
       /\ Returns("getStreak", <<goalId>>, StreakOf(goalId, now))
       /\ UNCHANGED <<db, tables, uuidCount, now>>

\* the MonthSummary getMonthSummary(userId, month) computes; month is <<year, monthNum>>
MonthSummaryOf(userId, month) ==
    LET startDate == <<month[1], month[2], 1>>
        endDate == <<month[1], month[2], 31>>
        logs == getDailyLogs(userId, startDate, endDate)
        activeGoals == {g \in getGoals(userId) : g.isActive}
        logDates == {l.date : l \in logs}
        completedCount(d) == Cardinality({l \in logs : l.date = d /\ l.completed})
        isCompleted(d) == completedCount(d) = Cardinality(activeGoals)
                            /\ Cardinality(activeGoals) > 0
    IN  [month |-> month,
         totalDays |-> DaysInMonth(month[1], month[2]),
         completedDays |-> Cardinality({d \in logDates : isCompleted(d)}),
         partialDays |-> Cardinality({d \in logDates :
                            ~isCompleted(d) /\ completedCount(d) > 0}),
         streakDays |-> Cardinality({l \in logs : l.completed})]

getMonthSummary(userId, month) ==
    \/ FailsClosed("getMonthSummary", <<userId, month>>)
    \/ /\ Initialized
       /\ Returns("getMonthSummary", <<userId, month>>, MonthSummaryOf(userId, month))
       /\ UNCHANGED <<db, tables, uuidCount, now>>

-----------------------------------------------------------------------------
(* The repository under every sequence of calls *)

WeightIds == {w.id : w \in weight_entries}
LogIds == {l.id : l \in daily_logs}
Months == {<<d[1], d[2]>> : d \in Dates}

Next ==
    \/ initDatabase /\ UNCHANGED frontVars
    \/ closeDatabase /\ UNCHANGED frontVars
    \/ Tick /\ UNCHANGED frontVars
    \/ \E data \in CreateUserInputs : createUser(data) /\ UNCHANGED frontVars
    \/ \E id \in UserIds \cup {MissingId}, updates \in UserPatches : updateUser(id, updates) /\ UNCHANGED frontVars
    \/ \E id \in UserIds \cup {MissingId} : deleteUser(id) /\ UNCHANGED frontVars
    \/ \E goal \in CreateGoalInputs(UserIds \cup {MissingId}) : createGoal(goal) /\ UNCHANGED frontVars
    \/ \E id \in GoalIds \cup {MissingId}, updates \in GoalPatches : updateGoal(id, updates) /\ UNCHANGED frontVars
    \/ \E id \in GoalIds \cup {MissingId} : deleteGoal(id) /\ UNCHANGED frontVars
    \/ \E userId \in UserIds \cup {MissingId}, goalId \in GoalIds \cup {MissingId},
          date \in Dates : toggleDailyLog(userId, goalId, date) /\ UNCHANGED frontVars
    \/ \E id \in LogIds \cup {MissingId}, updates \in DailyLogPatches :
          updateDailyLog(id, updates) /\ UNCHANGED frontVars
    \/ \E entry \in AddWeightInputs(UserIds \cup {MissingId}) : addWeightEntry(entry) /\ UNCHANGED frontVars
    \/ \E id \in WeightIds \cup {MissingId} : deleteWeightEntry(id) /\ UNCHANGED frontVars
    \/ \E updates \in SettingsPatches(UserIds \cup {MissingId}) : updateSettings(updates) /\ UNCHANGED frontVars
    \/ \E goalId \in GoalIds \cup {MissingId} : getStreak(goalId) /\ UNCHANGED frontVars
    \/ \E userId \in UserIds \cup {MissingId}, month \in Months :
          getMonthSummary(userId, month) /\ UNCHANGED frontVars

Spec == Init /\ [][Next]_vars

-----------------------------------------------------------------------------
(* The rows of the five tables under the calls that insert and delete them: *)
(* every call names ids that exist, one profile input, no clock advance    *)

OneProfile == CHOOSE data \in CreateUserInputs : data.firstName # <<>>

NextRows ==
    \/ initDatabase /\ UNCHANGED frontVars
    \/ createUser(OneProfile) /\ UNCHANGED frontVars
    \/ \E id \in UserIds : deleteUser(id) /\ UNCHANGED frontVars
    \/ \E goal \in CreateGoalInputs(UserIds \cup {MissingId}) :
          goal.isActive /\ createGoal(goal) /\ UNCHANGED frontVars
    \/ \E id \in GoalIds : deleteGoal(id) /\ UNCHANGED frontVars
    \/ \E userId \in UserIds \cup {MissingId}, goalId \in GoalIds \cup {MissingId},
          date \in Dates : toggleDailyLog(userId, goalId, date) /\ UNCHANGED frontVars
    \/ \E id \in LogIds : updateDailyLog(id, [completed |-> FALSE]) /\ UNCHANGED frontVars
    \/ \E entry \in AddWeightInputs(UserIds \cup {MissingId}) :
          /\ entry.weight = 70 /\ entry.unit = "kg" /\ entry.notes = None
          /\ addWeightEntry(entry) /\ UNCHANGED frontVars
    \/ \E id \in WeightIds : deleteWeightEntry(id) /\ UNCHANGED frontVars
    \/ \E updates \in SettingsPatches(UserIds \cup {MissingId}) :
          DOMAIN updates # {} /\ updateSettings(updates) /\ UNCHANGED frontVars

SpecRows == Init /\ [][NextRows]_vars

-----------------------------------------------------------------------------
(* Properties of the rows *)

\* the last call was a successful call of op
Called(op) == lastCall.op = op /\ lastCall.ok

\* C1: after any sequence of toggleDailyLog, updateDailyLog, createGoal, deleteGoal,
\* createUser and deleteUser calls, at most one daily log row exists for every
\* (user id, goal id, date) triple.
C1_OneLogPerTriple ==
    \A l1, l2 \in daily_logs :
        (l1.user_id = l2.user_id /\ l1.goal_id = l2.goal_id /\ l1.date = l2.date)
            => l1 = l2

\* a toggle of a triple that already had a log, with a second log in the table
C1_Witness ==
    /\ Called("toggleDailyLog")
    /\ LogRowsForDate(lastCall.args[1], lastCall.args[2], lastCall.args[3])
            \cap {l \in daily_logs : \E p \in lastCall.pre.daily_logs : p.id = l.id} # {}
    /\ Cardinality(daily_logs) >= 2

\* no goal, daily log or weight entry names a missing user, no daily log a missing goal
NoOrphans ==
    /\ \A g \in goals : g.user_id \in UserIds
    /\ \A l \in daily_logs : l.user_id \in UserIds /\ l.goal_id \in GoalIds
    /\ \A w \in weight_entries : w.user_id \in UserIds

\* C3: after deleteUser(u) no goal, daily log or weight entry with user id u remains
\* and no daily log of one of u's goals remains; in every reachable state no row is
\* an orphan.
C3_DeleteUserCascades ==
    /\ NoOrphans
    /\ Called("deleteUser") =>
        LET u == lastCall.args[1]
            ownGoals == {g.id : g \in {r \in lastCall.pre.goals : r.user_id = u}}
        IN  /\ u \notin UserIds
            /\ \A g \in goals : g.user_id # u
            /\ \A l \in daily_logs : l.user_id # u /\ l.goal_id \notin ownGoals
            /\ \A w \in weight_entries : w.user_id # u

\* deleteUser(u) of a user whose goal another, surviving user had logged
C3_Witness ==
    /\ Called("deleteUser")
    /\ users # {}
    /\ LET u == lastCall.args[1]
           ownGoals == {g.id : g \in {r \in lastCall.pre.goals : r.user_id = u}}
       IN  \E l \in lastCall.pre.daily_logs : l.goal_id \in ownGoals /\ l.user_id # u

\* C4: deleteGoal(g) removes goal g and every daily log whose goal id is g and leaves
\* all users, all other goals, the daily logs of other goals, all weight entries and
\* the settings row unchanged.
C4_DeleteGoalFrame ==
    Called("deleteGoal") =>
        LET g == lastCall.args[1]
        IN  /\ goals = {r \in lastCall.pre.goals : r.id # g}
            /\ daily_logs = {l \in lastCall.pre.daily_logs : l.goal_id # g}
            /\ users = lastCall.pre.users
            /\ weight_entries = lastCall.pre.weight_entries
            /\ settings = lastCall.pre.settings

\* deleteGoal of a goal that had a log while a log of another goal stays
C4_Witness ==
    /\ Called("deleteGoal")
    /\ \E l \in lastCall.pre.daily_logs : l.goal_id = lastCall.args[1]
    /\ daily_logs # {}

\* C5: settings.lastActiveUserId is always null or the id of an existing user;
\* deleteUser(u) sets it to null when it equals u, keeping the row and its other
\* fields, and leaves it unchanged when it names another user.
C5_LastActiveUserExists ==
    /\ \A s \in settings :
          IsSome(s.last_active_user_id) => Get(s.last_active_user_id) \in UserIds
    /\ Called("deleteUser") =>
          \A p \in lastCall.pre.settings :
             IF p.last_active_user_id = Some(lastCall.args[1])
                THEN settings = {[id |-> p.id, last_active_user_id |-> None,
                                  weight_unit |-> p.weight_unit, theme |-> p.theme,
                                  first_day_of_week |-> p.first_day_of_week]}
                ELSE settings = {p}

\* deleteUser of the last active user, with a changed theme in the settings row
C5_Witness ==
    /\ Called("deleteUser")
    /\ \E p \in lastCall.pre.settings :
          p.last_active_user_id = Some(lastCall.args[1]) /\ p.theme = "dark"
    /\ \E s \in settings : s.last_active_user_id = None /\ s.theme = "dark"

-----------------------------------------------------------------------------
(* The daily logs of one profile under toggles, updates and the clock *)

NextToggle ==
    \/ initDatabase /\ UNCHANGED frontVars
    \/ Tick /\ UNCHANGED frontVars
    \/ createUser(OneProfile) /\ UNCHANGED frontVars
    \/ \E userId \in UserIds, goalId \in GoalIds, date \in Dates :
          toggleDailyLog(userId, goalId, date) /\ UNCHANGED frontVars
    \/ \E id \in LogIds, updates \in DailyLogPatches : updateDailyLog(id, updates) /\ UNCHANGED frontVars

SpecToggle == Init /\ [][NextToggle]_vars

\* the rows of a table of daily logs with the triple <<userId, goalId, date>>
RowsOf(logs, triple) ==
    {l \in logs : <<l.user_id, l.goal_id, l.date>> = triple}

\* C2: toggleDailyLog on a triple with no log creates a log with completed = true; on
\* a triple that has a log it flips that log's completed flag in place (same id, same
\* createdAt, every other row untouched) and sets updatedAt; after k consecutive
\* toggles of an initially absent triple the log is completed exactly when k is odd.
C2_ToggleFlipsInPlace ==
    Called("toggleDailyLog") =>
        LET old == RowsOf(lastCall.pre.daily_logs, lastCall.args)
            new == RowsOf(daily_logs, lastCall.args)
        IN  /\ old = {} =>
                /\ \E l \in new :
                      /\ daily_logs = lastCall.pre.daily_logs \cup {l}
                      /\ l.completed = 1
                      /\ l.id \notin {p.id : p \in lastCall.pre.daily_logs}
            /\ \A o \in old :
                  daily_logs = (lastCall.pre.daily_logs \ {o}) \cup
                     {[id |-> o.id, user_id |-> o.user_id, goal_id |-> o.goal_id,
                       date |-> o.date, completed |-> 1 - o.completed,
                       value |-> o.value, notes |-> o.notes,
                       created_at |-> o.created_at, updated_at |-> lastCall.at]}
            /\ RowsOf(lastCall.start.daily_logs, lastCall.args) = {} =>
                  /\ Cardinality(new) = 1
                  /\ \A l \in new : (l.completed = 1) <=> (lastCall.run % 2 = 1)

\* the third toggle in a row of a triple that had no log, at a later time than the
\* first, next to a log of another date
C2_Witness ==
    /\ Called("toggleDailyLog")
    /\ lastCall.run = 3
    /\ RowsOf(lastCall.start.daily_logs, lastCall.args) = {}
    /\ \E l \in RowsOf(daily_logs, lastCall.args) :
          l.completed = 1 /\ l.updated_at > l.created_at
    /\ Cardinality(daily_logs) >= 2

-----------------------------------------------------------------------------
(* The weight entries under adds and deletes *)

NextWeight ==
    \/ initDatabase /\ UNCHANGED frontVars
    \/ Tick /\ UNCHANGED frontVars
    \/ createUser(OneProfile) /\ UNCHANGED frontVars
    \/ \E entry \in AddWeightInputs(UserIds) : addWeightEntry(entry) /\ UNCHANGED frontVars
    \/ \E id \in WeightIds : deleteWeightEntry(id) /\ UNCHANGED frontVars

SpecWeight == Init /\ [][NextWeight]_vars

\* the rows of a table of weight entries of one user and date
WeightRowsOf(entries, userId, date) ==
    {w \in entries : w.user_id = userId /\ w.date = date}

\* C6: after any sequence of addWeightEntry and deleteWeightEntry calls there is at
\* most one weight entry per (user id, date); addWeightEntry leaves exactly one row
\* for its (user, date), carrying the weight, unit and notes of that call, and leaves
\* the entries of every other (user, date) unchanged.
C6_OneWeightPerDay ==
    /\ \A w1, w2 \in weight_entries :
          (w1.user_id = w2.user_id /\ w1.date = w2.date) => w1 = w2
    /\ Called("addWeightEntry") =>
          LET entry == lastCall.args[1]
              mine == WeightRowsOf(weight_entries, entry.userId, entry.date)
          IN  /\ Cardinality(mine) = 1
              /\ \A w \in mine : /\ w.weight = entry.weight
                                 /\ w.unit = entry.unit
                                 /\ w.notes = entry.notes
              /\ weight_entries \ mine =
                    lastCall.pre.weight_entries
                        \ WeightRowsOf(lastCall.pre.weight_entries, entry.userId, entry.date)

\* an add for a (user, date) that had an entry with another weight, unit and notes,
\* while an entry of another date exists
C6_Witness ==
    /\ Called("addWeightEntry")
    /\ LET entry == lastCall.args[1]
       IN  /\ \E p \in WeightRowsOf(lastCall.pre.weight_entries, entry.userId, entry.date) :
                 p.weight # entry.weight /\ p.unit # entry.unit /\ p.notes # entry.notes
           /\ \E w \in weight_entries : w.date # entry.date

-----------------------------------------------------------------------------
(* getStreak over the histories of one goal: two profiles exist (users 1 and 3 with  *)
(* their default goals 2 and 4); on each day of a window user 1 has no log, a        *)
(* completed log or an uncompleted log of goal 2, and on some days user 3 has a      *)
(* completed log of goal 2 as well; the clock starts on the last day of the window   *)

StreakDay(i) == CivilFromDays(DaysFromCivil(BaseDate) + i)

StreakStart == DateGetTime(StreakDay(NumStreakDays - 1))

ProfileRow(id) ==
    [id |-> id, name |-> DisplayName(OneProfile.firstName, OneProfile.lastName),
     first_name |-> Some(OneProfile.firstName), last_name |-> Some(OneProfile.lastName),
     birthday |-> None, profile_photo |-> None, avatar_color |-> OneProfile.avatarColor,
     created_at |-> StartTime]

HistoryRow(id, userId, i, completed) ==
    [id |-> id, user_id |-> userId, goal_id |-> 2, date |-> StreakDay(i),
     completed |-> completed, value |-> None, notes |-> None,
     created_at |-> StartTime, updated_at |-> StartTime]

StreakInit ==
    \E owner \in [0 .. NumStreakDays - 1 -> {"none", "done", "undone"}],
       other \in SUBSET (1 .. NumOtherDays) :
        /\ db = [open |-> TRUE, handle |-> 1, schema |-> SCHEMA]
        /\ users = {ProfileRow(1), ProfileRow(3)}
        /\ goals = {DefaultGoalRow(2, 1, StartTime), DefaultGoalRow(4, 3, StartTime)}
        /\ daily_logs =
              {HistoryRow(5 + i, 1, i, IF owner[i] = "done" THEN 1 ELSE 0) :
                  i \in {j \in 0 .. NumStreakDays - 1 : owner[j] # "none"}}
              \cup {HistoryRow(5 + NumStreakDays + i, 3, i, 1) : i \in other}
        /\ weight_entries = {}
        /\ settings = {DefaultSettingsRow}
        /\ uuidCount = 4 + 2 * NumStreakDays
        /\ now = StreakStart
        /\ lastCall = [op |-> "none", args |-> <<>>, ok |-> TRUE, ret |-> None,
                       at |-> StreakStart, pre |-> Snapshot, run |-> 0,
                       start |-> Snapshot]
        /\ store = initialState
        /\ app = NotStarted
        /\ userStore = UserStoreInitial
        /\ pending = NoCalls
        /\ weightStore = WeightStoreInitial

StreakTick ==
    /\ now < StreakStart + MaxStreakTicks * (DAY \div 2)
    /\ now' = now + DAY \div 2
    /\ UNCHANGED <<db, tables, uuidCount, lastCall>>

NextStreak ==
    \/ StreakTick /\ UNCHANGED frontVars
    \/ \E goalId \in GoalIds \cup {MissingId} : getStreak(goalId) /\ UNCHANGED frontVars

SpecStreak == StreakInit /\ [][NextStreak]_vars


\* the day numbers of the dates on which the goal has a completed log
CompletedDays(goalId) == {DaysFromCivil(l.date) : l \in CompletedRows(goalId)}

\* the number of consecutive days of S that end with day d
RunEndingAt(S, d) ==
    IF d \notin S THEN 0
    ELSE CHOOSE k \in 1 .. Cardinality(S) :
            /\ \A i \in 0 .. k - 1 : d - i \in S
            /\ d - k \notin S

\* the length of the longest run of consecutive days in S
LongestRun(S) ==
    IF S = {} THEN 0
    ELSE CHOOSE n \in 1 .. Cardinality(S) :
            /\ \E d \in S : RunEndingAt(S, d) = n
            /\ \A d \in S : RunEndingAt(S, d) <= n

\* the latest day of a non-empty set of days
LastDay(S) == CHOOSE d \in S : \A e \in S : e <= d

\* the day number of the day of the last call
CallDay == lastCall.at \div DAY

\* C7: getStreak returns currentStreak = 0 whenever the most recent completed date of
\* the goal is more than one day before today, whatever the earlier runs; the longest
\* streak and the last completed date are still reported.
C7_StaleStreakIsZero ==
    Called("getStreak") =>
        LET S == CompletedDays(lastCall.args[1])
        IN  (S # {} /\ CallDay - LastDay(S) > 1) =>
                /\ lastCall.ret.currentStreak = 0
                /\ lastCall.ret.longestStreak >= 1
                /\ lastCall.ret.lastCompletedDate = Some(CivilFromDays(LastDay(S)))

\* getStreak two days after the last of three completed days in a row
C7_Witness ==
    /\ Called("getStreak")
    /\ LET S == CompletedDays(lastCall.args[1])
       IN  /\ S # {}
           /\ CallDay - LastDay(S) = 2
           /\ RunEndingAt(S, LastDay(S)) = 3
    /\ lastCall.ret.currentStreak = 0
    /\ lastCall.ret.longestStreak = 3

\* C8: when the most recent completed date of the goal is today or yesterday,
\* currentStreak is the number of consecutive calendar days, counted backward from
\* that date, that belong to the goal's completed dates.
C8_CurrentStreakWalksBack ==
    Called("getStreak") =>
        LET S == CompletedDays(lastCall.args[1])
        IN  (S # {} /\ CallDay - LastDay(S) \in {0, 1}) =>
                lastCall.ret.currentStreak = RunEndingAt(S, LastDay(S))

\* completed on 06-01, 06-02, 06-03 and 06-05, read on 06-05: the current streak is 1
C8_Witness ==
    /\ Called("getStreak")
    /\ CompletedDays(lastCall.args[1]) =
          {DaysFromCivil(<<2024, 6, d>>) : d \in {1, 2, 3, 5}}
    /\ ISODate(lastCall.at) = <<2024, 6, 5>>
    /\ lastCall.ret.currentStreak = 1

\* C9 (as claimed): for every history of completed logs of a goal, logs written under
\* other user ids included, longestStreak is the length of the longest run of
\* consecutive calendar days in the goal's set of completed dates; one completed date
\* gives at least 1.
C9_LongestStreakIsLongestRun ==
    Called("getStreak") =>
        LET S == CompletedDays(lastCall.args[1])
        IN  /\ lastCall.ret.longestStreak = LongestRun(S)
            /\ S # {} => lastCall.ret.longestStreak >= 1

-----------------------------------------------------------------------------
(* getMonthSummary over the goals and logs the calls build; every profile logs  *)
(* its own goals                                                               *)

NextMonth ==
    \/ initDatabase /\ UNCHANGED frontVars
    \/ createUser(OneProfile) /\ UNCHANGED frontVars
    \/ \E goal \in CreateGoalInputs(UserIds) : createGoal(goal) /\ UNCHANGED frontVars
    \/ \E id \in GoalIds, updates \in GoalPatches :
          DOMAIN updates # {} /\ updateGoal(id, updates) /\ UNCHANGED frontVars
    \/ \E goal \in goals, date \in Dates : toggleDailyLog(goal.user_id, goal.id, date) /\ UNCHANGED frontVars
    \/ \E userId \in UserIds \cup {MissingId}, month \in Months :
          getMonthSummary(userId, month) /\ UNCHANGED frontVars

SpecMonth == Init /\ [][NextMonth]_vars

\* the dates of a month <<year, monthNum>>
DatesOfMonth(month) ==
    {<<month[1], month[2], d>> : d \in 1 .. DaysInMonth(month[1], month[2])}

\* the ids of the goals of a user that are active now
ActiveGoalIds(userId) == {g.id : g \in {r \in goals : r.user_id = userId /\ r.is_active = 1}}

\* the user has a completed log of the goal on the date
CompletedOn(userId, goalId, date) ==
    \E l \in daily_logs :
        l.user_id = userId /\ l.goal_id = goalId /\ l.date = date /\ l.completed = 1

\* C10 (as claimed): getMonthSummary counts a date of the month as a fully-completed
\* day exactly when the user has at least one active goal and every active goal has a
\* completed log on that date, whatever the logs of inactive goals.
C10_CompletedDaysAreAllActiveGoals ==
    Called("getMonthSummary") =>
        LET userId == lastCall.args[1]
            month == lastCall.args[2]
            active == ActiveGoalIds(userId)
        IN  lastCall.ret.completedDays =
                Cardinality({d \in DatesOfMonth(month) :
                    /\ active # {}
                    /\ \A g \in active : CompletedOn(userId, g, d)})

\* the number of completed logs of the user on the date
CompletedLogCount(userId, date) ==
    Cardinality({l \in daily_logs : l.user_id = userId /\ l.date = date /\ l.completed = 1})

\* C11 (as claimed): getMonthSummary counts a date of the month as a partial day
\* exactly when the number of completed logs of the user on that date is greater than
\* zero and less than the number of the user's active goals; completed and partial
\* days together never exceed the dates that carry a completed log.
C11_PartialDaysAreBelowActiveCount ==
    Called("getMonthSummary") =>
        LET userId == lastCall.args[1]
            month == lastCall.args[2]
            total == Cardinality(ActiveGoalIds(userId))
        IN  /\ lastCall.ret.partialDays =
                  Cardinality({d \in DatesOfMonth(month) :
                      /\ CompletedLogCount(userId, d) > 0
                      /\ CompletedLogCount(userId, d) < total})
            /\ lastCall.ret.completedDays + lastCall.ret.partialDays <=
                  Cardinality({d \in DatesOfMonth(month) : CompletedLogCount(userId, d) > 0})

-----------------------------------------------------------------------------
(* getMonthSummary over the histories of two profiles: the logs of user 1 spread   *)
(* over two months, user 3 has logs in the same months, and goals are paused and   *)
(* resumed between the reads                                                      *)

SummaryMonths == {<<StreakDay(i)[1], StreakDay(i)[2]>> : i \in 0 .. NumStreakDays - 1}

NextSummary ==
    \/ \E id \in GoalIds, isActive \in BOOLEAN : updateGoal(id, [isActive |-> isActive]) /\ UNCHANGED frontVars
    \/ \E userId \in UserIds, month \in SummaryMonths : getMonthSummary(userId, month) /\ UNCHANGED frontVars

SpecSummary == StreakInit /\ [][NextSummary]_vars

\* the logs of the user dated inside the calendar month <<year, monthNum>>
MonthLogs(userId, month) ==
    {l \in daily_logs :
        l.user_id = userId /\ l.date[1] = month[1] /\ l.date[2] = month[2]}

\* the number of days from the first of the month to the first of the next month
MonthLength(month) ==
    LET next == IF month[2] = 12 THEN <<month[1] + 1, 1, 1>>
                ELSE <<month[1], month[2] + 1, 1>>
    IN  DaysFromCivil(next) - DaysFromCivil(<<month[1], month[2], 1>>)

\* C12: the result of getMonthSummary(user, month) is a function of the logs of that
\* user dated inside that month and of the user's current goals alone: streakDays is
\* the number of completed logs among them, totalDays the number of days of the month,
\* and the day counts come from those logs and the user's active goals; one active
\* goal completed on 06-01..06-03 with an uncompleted log on 06-04 gives 3, 0, 3, 30.
C12_SummaryOfUserAndMonthOnly ==
    Called("getMonthSummary") =>
        LET userId == lastCall.args[1]
            month == lastCall.args[2]
            done == {l \in MonthLogs(userId, month) : l.completed = 1}
            total == Cardinality(ActiveGoalIds(userId))
            full(d) == total > 0 /\ Cardinality({l \in done : l.date = d}) = total
            days == {l.date : l \in done}
        IN  /\ lastCall.ret.month = month
            /\ lastCall.ret.streakDays = Cardinality(done)
            /\ lastCall.ret.totalDays = MonthLength(month)
            /\ lastCall.ret.completedDays = Cardinality({d \in days : full(d)})
            /\ lastCall.ret.partialDays = Cardinality({d \in days : ~full(d)})

\* the example is read: user 1 has one active goal, completed logs on 06-01..06-03, an
\* uncompleted log on 06-04, a log in May, and user 3 has a completed log in June
C12_Witness ==
    /\ Called("getMonthSummary")
    /\ lastCall.args = <<1, <<2024, 6>>>>
    /\ ActiveGoalIds(1) = {2}
    /\ {<<l.date, l.completed>> : l \in MonthLogs(1, <<2024, 6>>)} =
          {<<<<2024, 6, 1>>, 1>>, <<<<2024, 6, 2>>, 1>>, <<<<2024, 6, 3>>, 1>>,
           <<<<2024, 6, 4>>, 0>>}
    /\ MonthLogs(1, <<2024, 5>>) # {}
    /\ \E l \in MonthLogs(3, <<2024, 6>>) : l.completed = 1
    /\ lastCall.ret = [month |-> <<2024, 6>>, totalDays |-> 30, completedDays |-> 3,
                       partialDays |-> 0, streakDays |-> 3]

-----------------------------------------------------------------------------
(* The goal store: every action awaits one call of the database through the   *)
(* IPC handlers and then sets the store from the reply                        *)

\* the arrays a query may return for a set of rows: every order of the rows in which
\* the sort key does not decrease
Orderings(S, key) ==
    {f \in [1 .. Cardinality(S) -> S] :
        /\ \A i, j \in 1 .. Cardinality(S) : f[i] = f[j] => i = j
        /\ \A i, j \in 1 .. Cardinality(S) : i < j => key[f[i]] <= key[f[j]]}

\* Map.set(k, v) on a Map held as a function
MapSet(map, k, v) == [x \in DOMAIN map \cup {k} |-> IF x = k THEN v ELSE map[x]]

\* Map.get(k) || []
MapGetOrEmpty(map, k) == IF k \in DOMAIN map THEN map[k] ELSE <<>>

\* fetchGoals(userId): getGoals, set goals, then fetchStreak for every active goal; a
\* failed getGoals is caught and leaves goals as they were
goalStore_fetchGoals(userId) ==
    /\ IF Initialized
       THEN \E fetched \in Orderings(getGoals(userId), [g \in getGoals(userId) |-> g.createdAt]) :
               LET activeGoals == {g.id : g \in {x \in getGoals(userId) : x.isActive}}
               IN  store' = [store EXCEPT
                       !.goals = fetched,
                       !.streaks = [id \in DOMAIN @ \cup activeGoals |->
                                       IF id \in activeGoals THEN StreakOf(id, now)
                                       ELSE @[id]]]
       ELSE store' = store
    /\ UNCHANGED <<db, tables, uuidCount, now, lastCall>>

\* fetchLogsForMonth(userId, month): getDailyLogs over the month, grouped by date in
\* the order of the reply (ORDER BY date DESC orders nothing inside one date)
goalStore_fetchLogsForMonth(userId, month) ==
    LET startDate == <<month[1], month[2], 1>>
        endDate == <<month[1], month[2], DaysInMonth(month[1], month[2])>>
        logs == getDailyLogs(userId, startDate, endDate)
        dates == {l.date : l \in logs}
        arrays(d) == Orderings({l \in logs : l.date = d}, [l \in logs |-> 0])
    IN  /\ IF Initialized
           THEN \E logsByDate \in [dates -> UNION {arrays(d) : d \in dates}] :
                   /\ \A d \in dates : logsByDate[d] \in arrays(d)
                   /\ store' = [store EXCEPT !.dailyLogs = logsByDate]
           ELSE store' = store
        /\ UNCHANGED <<db, tables, uuidCount, now, lastCall>>

\* fetchStreak(goalId): getStreak, then streaks.set(goalId, streak)
goalStore_fetchStreak(goalId) ==
    /\ getStreak(goalId)
    /\ store' = IF lastCall'.ok
                THEN [store EXCEPT !.streaks = MapSet(@, goalId, lastCall'.ret)]
                ELSE store

\* createGoal(goal): the new goal is appended to goals
goalStore_createGoal(goal) ==
    /\ createGoal(goal)
    /\ store' = IF lastCall'.ok
                THEN [store EXCEPT !.goals = Append(@, lastCall'.ret)]
                ELSE store

\* updateGoal(id, updates): the goal with that id is replaced by the updated goal
goalStore_updateGoal(id, updates) ==
    /\ updateGoal(id, updates)
    /\ store' = IF lastCall'.ok
                THEN [store EXCEPT !.goals =
                        [i \in 1 .. Len(@) |-> IF @[i].id = id THEN lastCall'.ret ELSE @[i]]]
                ELSE store

\* deleteGoal(id): the goal with that id is filtered out of goals
goalStore_deleteGoal(id) ==
    /\ deleteGoal(id)
    /\ store' = IF lastCall'.ok
                THEN [store EXCEPT !.goals = SelectSeq(@, LAMBDA g : g.id # id)]
                ELSE store

\* toggleDay(userId, goalId, date): the returned log replaces the log of that goal in
\* the array of the date or is pushed to it; then fetchStreak(goalId) reads the streak
\* of the goal from the tables as the toggle left them
goalStore_toggleDay(userId, goalId, date) ==
    /\ toggleDailyLog(userId, goalId, date)
    /\ store' =
          IF lastCall'.ok
          THEN LET log == lastCall'.ret
                   existingLogs == MapGetOrEmpty(store.dailyLogs, date)
                   found == {i \in 1 .. Len(existingLogs) : existingLogs[i].goalId = goalId}
                   newLogs ==
                       IF found # {}
                       THEN [existingLogs EXCEPT
                                ![CHOOSE i \in found : \A j \in found : i <= j] = log]
                       ELSE Append(existingLogs, log)
               IN  [store EXCEPT !.dailyLogs = MapSet(@, date, newLogs),
                                 !.streaks = MapSet(@, goalId, StreakOfRows(
                                     {l \in daily_logs' : l.goal_id = goalId /\ l.completed = 1},
                                     goalId, now))]
          ELSE store

\* reset(): back to the initial state
goalStore_reset ==
    /\ store' = initialState
    /\ UNCHANGED <<db, tables, uuidCount, now, lastCall>>

\* getDayStatus(date)
getDayStatus(date) ==
    LET logs == MapGetOrEmpty(store.dailyLogs, date)
        activeGoals == SelectSeq(store.goals, LAMBDA g : g.isActive)
        completed == SelectSeq(logs, LAMBDA l : l.completed)
        completedGoals == [i \in 1 .. Len(completed) |-> completed[i].goalId]
    IN  [date |-> date,
         completedGoals |-> completedGoals,
         totalGoals |-> Len(activeGoals),
         isFullyComplete |-> Len(activeGoals) > 0 /\ Len(completedGoals) = Len(activeGoals)]

\* the goals the store holds, and their ids
StoreGoals == {store.goals[i] : i \in 1 .. Len(store.goals)}
StoreGoalIds == {store.goals[i].id : i \in 1 .. Len(store.goals)}

\* one profile is created and selected; the store then works on the goals it holds,
\* on one day of one month
\* the renderer and application state outside the goal store
otherStores == <<app, userStore, pending, weightStore>>

NextStore ==
    \/ initDatabase /\ UNCHANGED frontVars
    \/ users = {} /\ createUser(OneProfile) /\ UNCHANGED frontVars
    \/ \E userId \in UserIds : goalStore_fetchGoals(userId) /\ UNCHANGED otherStores
    \/ \E userId \in UserIds :
          goalStore_fetchLogsForMonth(userId, <<BaseDate[1], BaseDate[2]>>) /\ UNCHANGED otherStores
    \/ \E goalId \in StoreGoalIds : goalStore_fetchStreak(goalId) /\ UNCHANGED otherStores
    \/ \E goal \in CreateGoalInputs(UserIds) :
          goal.isActive /\ Len(store.goals) < MaxStoreGoals /\ goalStore_createGoal(goal) /\ UNCHANGED otherStores
    \/ \E id \in StoreGoalIds, isActive \in BOOLEAN :
          goalStore_updateGoal(id, [isActive |-> isActive]) /\ UNCHANGED otherStores
    \/ \E id \in StoreGoalIds : goalStore_deleteGoal(id) /\ UNCHANGED otherStores
    \/ \E goal \in StoreGoals : goalStore_toggleDay(goal.userId, goal.id, BaseDate) /\ UNCHANGED otherStores

SpecStore == Init /\ [][NextStore]_vars

\* C13 (as claimed): for every date, getDayStatus reports as completedGoals only ids
\* of goals that are active in the store and have a completed log on that date,
\* totalGoals is the number of active goals, and isFullyComplete holds exactly when
\* there is an active goal and every active goal has a completed log on that date.
C13_DayStatusIsOfActiveGoals ==
    \A date \in Dates :
        LET status == getDayStatus(date)
            active == {store.goals[i].id :
                          i \in {j \in 1 .. Len(store.goals) : store.goals[j].isActive}}
            logs == MapGetOrEmpty(store.dailyLogs, date)
            done == {logs[i].goalId : i \in {j \in 1 .. Len(logs) : logs[j].completed}}
            reported == {status.completedGoals[i] : i \in 1 .. Len(status.completedGoals)}
        IN  /\ reported \subseteq active \cap done
            /\ status.totalGoals = Cardinality(active)
            /\ status.isFullyComplete <=> (active # {} /\ active \subseteq done)

-----------------------------------------------------------------------------
(* The profiles under createUser and updateUser *)

NextUsers ==
    \/ initDatabase /\ UNCHANGED frontVars
    \/ closeDatabase /\ UNCHANGED frontVars
    \/ \E data \in CreateUserInputs : createUser(data) /\ UNCHANGED frontVars
    \/ \E id \in UserIds \cup {MissingId}, updates \in UserPatches :
          updateUser(id, updates) /\ UNCHANGED frontVars

SpecUsers == Init /\ [][NextUsers]_vars

\* the text of an optional column, '' when it is NULL
TextOf(column) == IF IsSome(column) THEN Get(column) ELSE <<>>

\* C14 (as claimed): after any sequence of createUser and updateUser calls the name of
\* every user is trim(firstName + " " + lastName) of the stored first and last name,
\* also after an update that passes an explicit name.
C14_NameInSyncWithFirstLast ==
    \A u \in users :
        u.name = Trim(TextOf(u.first_name) \o <<" ">> \o TextOf(u.last_name))

\* C15: updateUser called with no present field fails with "No updates provided" and
\* leaves every table as the call found it.
C15_EmptyUserPatchFails ==
    (lastCall.op = "updateUser" /\ DOMAIN lastCall.args[2] = {}) =>
        /\ ~lastCall.ok
        /\ lastCall.ret = "No updates provided"
        /\ Snapshot = lastCall.pre

\* an existing user was updated with an empty patch
C15_Witness ==
    /\ lastCall.op = "updateUser"
    /\ DOMAIN lastCall.args[2] = {}
    /\ Initialized
    /\ \E u \in users : u.id = lastCall.args[1]
    /\ ~lastCall.ok

-----------------------------------------------------------------------------
(* Goals and daily logs under partial updates, while the clock advances *)

PatchedGoalFields == {<<>>, [isActive |-> FALSE], [name |-> <<"N">>, targetValue |-> Some(3)]}

NextPatch ==
    \/ initDatabase /\ UNCHANGED frontVars
    \/ Tick /\ UNCHANGED frontVars
    \/ users = {} /\ createUser(OneProfile) /\ UNCHANGED frontVars
    \/ \E goal \in goals, date \in Dates :
          toggleDailyLog(goal.user_id, goal.id, date) /\ UNCHANGED frontVars
    \/ \E id \in GoalIds \cup {MissingId}, updates \in PatchedGoalFields :
          updateGoal(id, updates) /\ UNCHANGED frontVars
    \/ \E id \in LogIds \cup {MissingId}, updates \in DailyLogPatches :
          updateDailyLog(id, updates) /\ UNCHANGED frontVars

SpecPatch == Init /\ [][NextPatch]_vars

\* C16: a successful updateGoal or updateDailyLog replaces the one row with the given
\* id by a row whose updated_at is the time of the call, whose patched columns carry
\* the fields present in the patch, and whose other columns (id, user_id, goal_id,
\* date, created_at included) are as before; with an empty patch only updated_at
\* changes; every other row and table is left as it was; the call fails only without
\* a handle or without a row of that id.
C16_UpdateTouchesPatchedFieldsOnly ==
    LET id == lastCall.args[1]
        updates == lastCall.args[2]
        has(f) == f \in DOMAIN updates
    IN  /\ Called("updateGoal") =>
              /\ \E old \in lastCall.pre.goals :
                    /\ old.id = id
                    /\ goals = (lastCall.pre.goals \ {old}) \cup
                          {[id |-> old.id, user_id |-> old.user_id,
                            created_at |-> old.created_at, updated_at |-> lastCall.at,
                            name |-> IF has("name") THEN updates.name ELSE old.name,
                            type |-> IF has("type") THEN updates.type ELSE old.type,
                            frequency |-> IF has("frequency") THEN updates.frequency
                                          ELSE old.frequency,
                            target_value |-> IF has("targetValue") THEN updates.targetValue
                                             ELSE old.target_value,
                            unit |-> IF has("unit") THEN updates.unit ELSE old.unit,
                            is_active |-> IF has("isActive")
                                          THEN (IF updates.isActive THEN 1 ELSE 0)
                                          ELSE old.is_active]}
              /\ [Snapshot EXCEPT !.goals = {}] = [lastCall.pre EXCEPT !.goals = {}]
        /\ Called("updateDailyLog") =>
              /\ \E old \in lastCall.pre.daily_logs :
                    /\ old.id = id
                    /\ daily_logs = (lastCall.pre.daily_logs \ {old}) \cup
                          {[id |-> old.id, user_id |-> old.user_id, goal_id |-> old.goal_id,
                            date |-> old.date, created_at |-> old.created_at,
                            updated_at |-> lastCall.at,
                            completed |-> IF has("completed")
                                          THEN (IF updates.completed THEN 1 ELSE 0)
                                          ELSE old.completed,
                            value |-> IF has("value") THEN updates.value ELSE old.value,
                            notes |-> IF has("notes") THEN updates.notes ELSE old.notes]}
              /\ [Snapshot EXCEPT !.daily_logs = {}] =
                    [lastCall.pre EXCEPT !.daily_logs = {}]
        /\ (lastCall.op = "updateGoal" /\ ~lastCall.ok) =>
              (lastCall.ret = NOT_INITIALIZED \/ \A g \in lastCall.pre.goals : g.id # id)
        /\ (lastCall.op = "updateDailyLog" /\ ~lastCall.ok) =>
              (lastCall.ret = NOT_INITIALIZED \/ \A l \in lastCall.pre.daily_logs : l.id # id)

\* a log was updated with an empty patch after the clock advanced, next to a goal that
\* an empty patch had updated before
C16_Witness ==
    /\ Called("updateDailyLog")
    /\ lastCall.args[2] = <<>>
    /\ \E l \in daily_logs :
          l.id = lastCall.args[1] /\ l.updated_at > l.created_at /\ l.completed = 1
    /\ \E g \in goals : g.updated_at > g.created_at /\ g.is_active = 1 /\ g.name # <<"N">>

-----------------------------------------------------------------------------
(* createUser among the rows of other users *)

\* C17: a successful createUser adds exactly one user and exactly one goal, owned by
\* that user, named "Workout", of type workout, frequency daily and active; getGoals
\* of the new user returns exactly that goal; every other row is left as it was.
C17_CreateUserAddsDefaultGoal ==
    Called("createUser") =>
        \E u \in users, g \in goals :
            /\ u \notin lastCall.pre.users /\ users = lastCall.pre.users \cup {u}
            /\ g \notin lastCall.pre.goals /\ goals = lastCall.pre.goals \cup {g}
            /\ u.id = lastCall.ret.id
            /\ u.id \notin {p.id : p \in lastCall.pre.users}
            /\ g.id \notin {p.id : p \in lastCall.pre.goals}
            /\ g.user_id = u.id
            /\ g.name = <<"W", "o", "r", "k", "o", "u", "t">>
            /\ g.type = "workout" /\ g.frequency = "daily" /\ g.is_active = 1
            /\ Cardinality(getGoals(u.id)) = 1
            /\ \A goal \in getGoals(u.id) :
                  /\ goal.id = g.id /\ goal.userId = u.id /\ goal.isActive
                  /\ goal.type = "workout" /\ goal.frequency = "daily"
            /\ daily_logs = lastCall.pre.daily_logs
            /\ weight_entries = lastCall.pre.weight_entries
            /\ settings = lastCall.pre.settings

\* a second profile was created while the first had its goal and a log
C17_Witness ==
    /\ Called("createUser")
    /\ lastCall.pre.users # {}
    /\ lastCall.pre.daily_logs # {}
    /\ Cardinality(users) = 2
    /\ Cardinality(goals) = 2

-----------------------------------------------------------------------------
(* Every operation of the module, with and without an open handle: one profile, *)
(* one input per operation                                                     *)

NextHandle ==
    \/ initDatabase /\ UNCHANGED frontVars
    \/ closeDatabase /\ UNCHANGED frontVars
    \/ users = {} /\ createUser(OneProfile) /\ UNCHANGED frontVars
    \/ \E id \in UserIds, updates \in {<<>>, [firstName |-> <<"C">>]} :
          updateUser(id, updates) /\ UNCHANGED frontVars
    \/ \E id \in UserIds : deleteUser(id) /\ UNCHANGED frontVars
    \/ \E goal \in CreateGoalInputs(UserIds) :
          goal.isActive /\ goals = {} /\ createGoal(goal) /\ UNCHANGED frontVars
    \/ \E id \in GoalIds : updateGoal(id, [isActive |-> FALSE]) /\ UNCHANGED frontVars
    \/ \E id \in GoalIds : deleteGoal(id) /\ UNCHANGED frontVars
    \/ \E goal \in goals :
          toggleDailyLog(goal.user_id, goal.id, BaseDate) /\ UNCHANGED frontVars
    \/ \E id \in LogIds : updateDailyLog(id, <<>>) /\ UNCHANGED frontVars
    \/ \E entry \in AddWeightInputs(UserIds) :
          /\ entry.date = BaseDate /\ entry.weight = 70
          /\ entry.unit = "kg" /\ entry.notes = None
          /\ addWeightEntry(entry) /\ UNCHANGED frontVars
    \/ \E id \in WeightIds : deleteWeightEntry(id) /\ UNCHANGED frontVars
    \/ updateSettings([theme |-> "dark"]) /\ UNCHANGED frontVars
    \/ \E goalId \in GoalIds \cup {MissingId} : getStreak(goalId) /\ UNCHANGED frontVars
    \/ \E userId \in UserIds \cup {MissingId} :
          getMonthSummary(userId, <<BaseDate[1], BaseDate[2]>>) /\ UNCHANGED frontVars

SpecHandle == Init /\ [][NextHandle]_vars

\* the last call was a call of a repository or aggregation operation
RepositoryCall == lastCall.op \notin {"none", "initDatabase", "closeDatabase"}

\* C18 (as claimed): every repository and aggregation operation called while no handle
\* is open fails with the not-initialized error and changes nothing, and no operation
\* called while a handle is open fails with that error.
C18_NoHandleNoOperation ==
    RepositoryCall =>
        /\ ~Initialized =>
              /\ ~lastCall.ok
              /\ lastCall.ret = NOT_INITIALIZED
              /\ Snapshot = lastCall.pre
        /\ Initialized => (lastCall.ok \/ lastCall.ret # NOT_INITIALIZED)

\* C19: initDatabase called while a handle is open returns that handle and changes
\* neither the handle nor any table (no schema run, no seeding); closeDatabase called
\* while no handle is open changes nothing; so a repeated initDatabase or a repeated
\* closeDatabase leaves the state the first one left.
C19_InitAndCloseIdempotent ==
    [][/\ (Initialized /\ lastCall' # lastCall /\ lastCall'.op = "initDatabase") =>
            /\ UNCHANGED <<db, tables, uuidCount>>
            /\ lastCall'.ok /\ lastCall'.ret = db.handle
       /\ (~Initialized /\ lastCall' # lastCall /\ lastCall'.op = "closeDatabase") =>
            /\ UNCHANGED <<db, tables, uuidCount>>
            /\ lastCall'.ok
       /\ (lastCall' # lastCall /\ lastCall'.op = lastCall.op
              /\ lastCall.op \in {"initDatabase", "closeDatabase"}) =>
            UNCHANGED <<db, tables, uuidCount>>]_vars

\* initDatabase was called a third time in a row on the second handle of a store that
\* holds a profile and changed settings
C19_Witness ==
    /\ Called("initDatabase")
    /\ lastCall.run = 3
    /\ db = [open |-> TRUE, handle |-> 2, schema |-> SCHEMA]
    /\ lastCall.ret = 2
    /\ users # {}
    /\ \E row \in settings : row.theme = "dark"

-----------------------------------------------------------------------------
(* The application lifecycle of main.ts: ready, the last window closed, activate *)
(* (macOS), quit; a handler runs when a window invokes it                       *)

Platforms == {"darwin", "other"}

\* the application after the two calls that follow initDatabase() in createWindow():
\* registerIpcHandlers() and new BrowserWindow(...). ipcMain.handle throws for a
\* channel that already has a handler, which ends createWindow before the window is
\* constructed
WindowCreated(a) ==
    IF a.handlers THEN a ELSE [a EXCEPT !.handlers = TRUE, !.windows = 1]

createWindow ==
    /\ initDatabase
    /\ app' = WindowCreated(app)
    /\ UNCHANGED rendererVars

\* app.whenReady().then(() => { createWindow(); ... })
whenReady ==
    /\ ~app.ready /\ ~app.quit
    /\ \E platform \in Platforms :
          /\ initDatabase
          /\ app' = WindowCreated([app EXCEPT !.platform = platform, !.ready = TRUE])
          /\ UNCHANGED rendererVars

\* the user closes the last window: app.on('window-all-closed')
windowAllClosed ==
    /\ app.windows = 1 /\ ~app.quit
    /\ closeDatabase
    /\ app' = [app EXCEPT !.windows = 0, !.quit = (app.platform # "darwin")]
    /\ UNCHANGED rendererVars

\* app.on('activate'), emitted on macOS
activate ==
    /\ app.ready /\ ~app.quit /\ app.platform = "darwin"
    /\ IF app.windows = 0 THEN createWindow ELSE UNCHANGED vars

\* the application is told to quit (the quit menu item, Cmd+Q): Electron closes the
\* windows and emits before-quit, will-quit and quit without window-all-closed;
\* main.ts subscribes to none of the three
quit ==
    /\ app.ready /\ ~app.quit
    /\ app' = [app EXCEPT !.windows = 0, !.quit = TRUE]
    /\ UNCHANGED <<backVars, rendererVars>>

\* a window invokes a registered handler
invoke ==
    /\ app.windows = 1 /\ app.handlers /\ ~app.quit
    /\ \/ users = {} /\ createUser(OneProfile)
       \/ \E goal \in goals : toggleDailyLog(goal.user_id, goal.id, BaseDate)
       \/ \E goalId \in GoalIds : getStreak(goalId)
    /\ UNCHANGED frontVars

NextApp ==
    \/ whenReady
    \/ windowAllClosed
    \/ activate
    \/ quit
    \/ invoke

SpecApp == Init /\ [][NextApp]_vars

\* C20 (as claimed): over every sequence of lifecycle events at most one handle is ever
\* opened (none is opened again after a close), the handle is closed once the
\* application has quit, and a window that can invoke a handler exists only while the
\* handle is open.
C20_OpenedOnceClosedAtShutdown ==
    /\ db.handle <= 1
    /\ app.quit => ~Initialized
    /\ (app.windows = 1 /\ app.handlers) => Initialized

-----------------------------------------------------------------------------
(* Schema-ensure: initDatabase on a file that a run of this or of an earlier     *)
(* version of the application wrote                                               *)

\* a profile written before first_name, last_name, birthday and profile_photo
\* were columns of users
LegacyProfileRow ==
    [id |-> 1, name |-> <<"A">>, first_name |-> None, last_name |-> None,
     birthday |-> None, profile_photo |-> None, avatar_color |-> "#6366f1",
     created_at |-> StartTime - DAY]

\* no file, or a file with the five tables in which users has any of the four
\* migrated columns, holds one profile or none, and the settings row has the
\* default or a chosen theme
SchemaInit ==
    \E file \in BOOLEAN, columns \in SUBSET MigratedColumns, profile \in BOOLEAN,
       theme \in {"light", "dark"} :
        /\ db = [open |-> FALSE, handle |-> 0,
                 schema |-> IF file
                            THEN [SCHEMA EXCEPT
                                    !["users"] = (@ \ MigratedColumns) \cup columns]
                            ELSE NoFile]
        /\ users = IF file /\ profile THEN {LegacyProfileRow} ELSE {}
        /\ goals = {}
        /\ daily_logs = {}
        /\ weight_entries = {}
        /\ settings = IF file THEN {[DefaultSettingsRow EXCEPT !.theme = theme]} ELSE {}
        /\ uuidCount = IF file /\ profile THEN 1 ELSE 0
        /\ now = StartTime
        /\ lastCall = [op |-> "none", args |-> <<>>, ok |-> TRUE, ret |-> None,
                       at |-> StartTime, pre |-> Snapshot, run |-> 0,
                       start |-> Snapshot]
        /\ store = initialState
        /\ app = NotStarted
        /\ userStore = UserStoreInitial
        /\ pending = NoCalls
        /\ weightStore = WeightStoreInitial

NextSchema ==
    \/ initDatabase /\ UNCHANGED frontVars
    \/ closeDatabase /\ UNCHANGED frontVars
    \/ users = {} /\ createUser(OneProfile) /\ UNCHANGED frontVars
    \/ updateSettings([weightUnit |-> "kg"]) /\ UNCHANGED frontVars

SpecSchema == SchemaInit /\ [][NextSchema]_vars

\* C21: a step that runs schema-ensure on a file on which it has run before (a
\* Database object is constructed and it is not the first one) ends without an error
\* and leaves the tables of the file, the columns of every table, every row of every
\* table and the settings row as they were.
C21_SecondSchemaEnsureChangesNothing ==
    [][(db.handle >= 1 /\ db'.handle = db.handle + 1) =>
          /\ lastCall'.op = "initDatabase" /\ lastCall'.ok
          /\ db'.schema = db.schema
          /\ db'.schema = SCHEMA
          /\ UNCHANGED tables
          /\ Cardinality(settings') = 1]_vars

\* schema-ensure has run a second time on a file that holds a profile, its default
\* goal and a changed settings row
C21_Witness ==
    /\ db.open /\ db.handle = 2
    /\ lastCall.op = "initDatabase" /\ lastCall.ok /\ lastCall.run = 1
    /\ users # {} /\ goals # {}
    /\ \E row \in settings : row.weight_unit = "kg"

-----------------------------------------------------------------------------
(* Create, then read: every entity type with optional fields present and absent *)

RoundTripUsers ==
    [firstName : {<<"A">>}, lastName : LastNames,
     birthday : {None, Some(<<1990, 1, 2>>)}, profilePhoto : {None},
     avatarColor : AvatarColors]

RoundTripGoals(userIds) ==
    [userId : userIds, name : {<<"R">>}, type : {"custom"}, frequency : {"weekly"},
     targetValue : {None, Some(3)}, unit : {None, Some(<<"k">>)}, isActive : BOOLEAN]

NextRoundTrip ==
    \/ initDatabase /\ UNCHANGED frontVars
    \/ \E data \in RoundTripUsers : users = {} /\ createUser(data) /\ UNCHANGED frontVars
    \/ \E goal \in RoundTripGoals(UserIds) :
          Cardinality(goals) < MaxRoundTripGoals /\ createGoal(goal)
             /\ UNCHANGED frontVars
    \/ \E goal \in goals : toggleDailyLog(goal.user_id, goal.id, BaseDate)
                              /\ UNCHANGED frontVars
    \/ \E entry \in AddWeightInputs(UserIds) :
          /\ entry.date = BaseDate /\ entry.weight = 70 /\ entry.unit = "kg"
          /\ addWeightEntry(entry) /\ UNCHANGED frontVars
    \/ \E updates \in SettingsPatches(UserIds) :
          updateSettings(updates) /\ UNCHANGED frontVars

SpecRoundTrip == Init /\ [][NextRoundTrip]_vars

\* every field of the input is a field of the object with the same value
SameFields(input, object) ==
    \A field \in DOMAIN input : field \in DOMAIN object /\ object[field] = input[field]

\* the ids the tables held before the last call
IdsBefore ==
    {row.id : row \in lastCall.pre.users \cup lastCall.pre.goals
                        \cup lastCall.pre.daily_logs \cup lastCall.pre.weight_entries}

\* C22: in the state a successful create leaves, the read of the entity type returns
\* an object that is the created input field for field (an absent optional field is
\* absent) together with a generated id and the time of the call as its timestamps,
\* and that object is the one the create returned: createUser and getUsers,
\* createGoal and getGoals, toggleDailyLog and getLogForDate, addWeightEntry and
\* getWeightEntries, updateSettings and getSettings.
C22_ReadAfterCreateReturnsInput ==
    /\ Called("createUser") =>
          LET data == lastCall.args[1]
          IN  \E user \in getUsers :
                /\ user = lastCall.ret
                /\ user.firstName = Some(data.firstName)
                /\ user.lastName = Some(data.lastName)
                /\ SameFields([birthday |-> data.birthday,
                               profilePhoto |-> data.profilePhoto,
                               avatarColor |-> data.avatarColor], user)
                /\ user.id \notin IdsBefore
                /\ user.createdAt = lastCall.at
    /\ Called("createGoal") =>
          LET goal == lastCall.args[1]
          IN  \E read \in getGoals(goal.userId) :
                /\ read = lastCall.ret
                /\ SameFields(goal, read)
                /\ read.id \notin IdsBefore
                /\ read.createdAt = lastCall.at /\ read.updatedAt = lastCall.at
    /\ Called("toggleDailyLog") =>
          LET read == getLogForDate(lastCall.args[1], lastCall.args[2], lastCall.args[3])
          IN  /\ read = Some(lastCall.ret)
              /\ SameFields([userId |-> lastCall.args[1], goalId |-> lastCall.args[2],
                             date |-> lastCall.args[3]], Get(read))
              /\ Get(read).updatedAt = lastCall.at
              /\ Get(read).id \notin IdsBefore =>
                    /\ Get(read).completed
                    /\ Get(read).value = None /\ Get(read).notes = None
                    /\ Get(read).createdAt = lastCall.at
    /\ Called("addWeightEntry") =>
          LET entry == lastCall.args[1]
          IN  \E read \in getWeightEntries(entry.userId) :
                /\ read = lastCall.ret
                /\ SameFields(entry, read)
                /\ read.id \notin IdsBefore
                /\ read.createdAt = lastCall.at
    /\ Called("updateSettings") =>
          /\ getSettings = lastCall.ret
          /\ SameFields(lastCall.args[1], getSettings)

\* a paused goal without a target value and with a unit was created and reads back
C22_Witness ==
    /\ Called("createGoal")
    /\ ~lastCall.args[1].isActive
    /\ lastCall.args[1].targetValue = None
    /\ lastCall.args[1].unit # None
    /\ \E read \in getGoals(lastCall.args[1].userId) :
          read.id = lastCall.ret.id /\ ~read.isActive /\ read.targetValue = None
    /\ weight_entries # {} /\ daily_logs # {}

-----------------------------------------------------------------------------
(* Writes that name a user or a goal that does not exist *)

\* the last call was a write that names a user id or a goal id that no row had
DanglingWrite ==
    LET userIds == {u.id : u \in lastCall.pre.users}
        goalIds == {g.id : g \in lastCall.pre.goals}
    IN  \/ lastCall.op = "createGoal" /\ lastCall.args[1].userId \notin userIds
        \/ /\ lastCall.op = "toggleDailyLog"
           /\ lastCall.args[1] \notin userIds \/ lastCall.args[2] \notin goalIds
        \/ lastCall.op = "addWeightEntry" /\ lastCall.args[1].userId \notin userIds
        \/ /\ lastCall.op = "updateSettings"
           /\ "lastActiveUserId" \in DOMAIN lastCall.args[1]
           /\ IsSome(lastCall.args[1].lastActiveUserId)
           /\ Get(lastCall.args[1].lastActiveUserId) \notin userIds

\* C23: a createGoal, toggleDailyLog, addWeightEntry or updateSettings that names a
\* user id or a goal id that no row has fails (with the constraint error of the
\* storage layer whenever a handle is open) and leaves every table as it was.
C23_DanglingWriteRejected ==
    DanglingWrite =>
        /\ ~lastCall.ok
        /\ lastCall.ret \in {CONSTRAINT, NOT_INITIALIZED}
        /\ Initialized => lastCall.ret = CONSTRAINT
        /\ Snapshot = lastCall.pre

\* toggleDailyLog for a user that exists and a goal that does not was rejected while
\* the tables hold a log and a weight entry
C23_Witness ==
    /\ lastCall.op = "toggleDailyLog" /\ ~lastCall.ok /\ lastCall.ret = CONSTRAINT
    /\ lastCall.args[1] \in UserIds /\ lastCall.args[2] = MissingId
    /\ daily_logs # {} /\ weight_entries # {}

-----------------------------------------------------------------------------
(* Reads through the handlers: each returns what the repository function returns *)
(* or fails without a handle, and changes no table                               *)

Reads(op, args, value) ==
    \/ FailsClosed(op, args)
    \/ /\ Initialized
       /\ Returns(op, args, value)
       /\ UNCHANGED <<db, tables, uuidCount, now>>

goals_getAll(userId) == Reads("getGoals", <<userId>>, getGoals(userId))

logs_getRange(userId, startDate, endDate) ==
    Reads("getDailyLogs", <<userId, startDate, endDate>>,
          getDailyLogs(userId, startDate, endDate))

logs_getForDate(userId, goalId, date) ==
    Reads("getLogForDate", <<userId, goalId, date>>, getLogForDate(userId, goalId, date))

weight_getAll(userId) == Reads("getWeightEntries", <<userId>>, getWeightEntries(userId))

\* every id drawn so far, whether or not a row still has it, and an id never drawn
DrawnIds == 0 .. uuidCount

NextReads ==
    \/ initDatabase /\ UNCHANGED frontVars
    \/ createUser(OneProfile) /\ UNCHANGED frontVars
    \/ \E id \in UserIds : deleteUser(id) /\ UNCHANGED frontVars
    \/ \E id \in GoalIds : deleteGoal(id) /\ UNCHANGED frontVars
    \/ \E goal \in goals : toggleDailyLog(goal.user_id, goal.id, BaseDate)
                              /\ UNCHANGED frontVars
    \/ \E entry \in AddWeightInputs(UserIds) :
          /\ entry.date = BaseDate /\ entry.weight = 70 /\ entry.unit = "kg"
          /\ entry.notes = None
          /\ addWeightEntry(entry) /\ UNCHANGED frontVars
    \/ \E userId \in DrawnIds : goals_getAll(userId) /\ UNCHANGED frontVars
    \/ \E userId \in DrawnIds :
          logs_getRange(userId, BaseDate, BaseDate) /\ UNCHANGED frontVars
    \/ \E userId \in DrawnIds, goalId \in DrawnIds :
          logs_getForDate(userId, goalId, BaseDate) /\ UNCHANGED frontVars
    \/ \E userId \in DrawnIds : weight_getAll(userId) /\ UNCHANGED frontVars
    \/ \E goalId \in DrawnIds : getStreak(goalId) /\ UNCHANGED frontVars
    \/ \E userId \in DrawnIds :
          getMonthSummary(userId, <<BaseDate[1], BaseDate[2]>>) /\ UNCHANGED frontVars

SpecReads == Init /\ [][NextReads]_vars

\* the last call was a read or an aggregation, with a handle, that names a user id or
\* a goal id that no row has
ReadOfMissingId ==
    /\ Initialized
    /\ \/ /\ lastCall.op \in {"getGoals", "getDailyLogs", "getWeightEntries",
                              "getMonthSummary"}
          /\ lastCall.args[1] \notin UserIds
       \/ /\ lastCall.op = "getLogForDate"
          /\ lastCall.args[1] \notin UserIds \/ lastCall.args[2] \notin GoalIds
       \/ lastCall.op = "getStreak" /\ lastCall.args[1] \notin GoalIds

\* C24: a read or an aggregation that is given an id no row has (a handle being
\* open) returns and does not throw, changes no table, and its answer is empty or
\* zero: absent for getLogForDate, no element for getGoals, getDailyLogs and
\* getWeightEntries, 0, 0 and no last completed date for getStreak, 0 completed,
\* partial and streak days for getMonthSummary.
C24_ReadOfMissingIdIsEmpty ==
    ReadOfMissingId =>
        /\ lastCall.ok
        /\ Snapshot = lastCall.pre
        /\ lastCall.op = "getLogForDate" => lastCall.ret = None
        /\ lastCall.op \in {"getGoals", "getDailyLogs", "getWeightEntries"} =>
              lastCall.ret = {}
        /\ lastCall.op = "getStreak" =>
              lastCall.ret = [goalId |-> lastCall.args[1], currentStreak |-> 0,
                              longestStreak |-> 0, lastCompletedDate |-> None]
        /\ lastCall.op = "getMonthSummary" =>
              /\ lastCall.ret.completedDays = 0
              /\ lastCall.ret.partialDays = 0
              /\ lastCall.ret.streakDays = 0

\* getWeightEntries was called with the id of a deleted user while another user has a
\* goal, a completed log and a weight entry
C24_Witness ==
    /\ Called("getWeightEntries")
    /\ lastCall.args[1] \in DrawnIds \ (UserIds \cup GoalIds \cup {MissingId})
    /\ lastCall.ret = {}
    /\ \E l \in daily_logs : l.completed = 1
    /\ weight_entries # {}

-----------------------------------------------------------------------------
(* Ownership of daily logs *)

\* C25 (as claimed): in every reachable state the user of every daily log is the user
\* that owns the goal of the log.
C25_LogUserOwnsLogGoal ==
    \A l \in daily_logs : \E g \in goals : g.id = l.goal_id /\ g.user_id = l.user_id

-----------------------------------------------------------------------------
(* The three fields of a Streak against each other *)

\* C26 (as claimed): for every goal and every history of logs, getStreak returns a
\* currentStreak that is at most longestStreak, and a lastCompletedDate that is the
\* latest date with a completed log of the goal, absent exactly when the goal has no
\* completed log, in which case both streaks are 0.
C26_CurrentAtMostLongest ==
    Called("getStreak") =>
        LET S == CompletedDays(lastCall.args[1])
            ret == lastCall.ret
        IN  /\ ret.currentStreak <= ret.longestStreak
            /\ (ret.lastCompletedDate = None) <=> (S = {})
            /\ S = {} => ret.currentStreak = 0 /\ ret.longestStreak = 0
            /\ S # {} =>
                  /\ DaysFromCivil(Get(ret.lastCompletedDate)) \in S
                  /\ \A d \in S : d <= DaysFromCivil(Get(ret.lastCompletedDate))
                  /\ ret.longestStreak >= 1

-----------------------------------------------------------------------------
(* The user store (renderer/stores/userStore.ts). A call runs up to its next     *)
(* await in one step. An await of window.api sends the request in that step, and *)
(* the main process handles it before the renderer does anything else, so the    *)
(* database changes in the step that sends; the replies resume the calls in the  *)
(* order of the requests. An await of setTimeout resumes the call at any later   *)
(* step.                                                                         *)

\* the calls that wait for an IPC reply, and those that wait for anything
WaitsForReply(calls) == {slot \in Slots : calls[slot].ticket > 0}
Waiting == {slot \in Slots : pending[slot].call # "none"}
Settled == Waiting = {}
FreeSlots == Slots \ Waiting

\* the slot whose reply arrives next
IsNextReply(slot) == pending[slot].ticket = 1

\* the waiting calls once the call of the slot has left the order of the replies
Resumed(slot) ==
    [other \in Slots |->
        IF other = slot THEN NoCall
        ELSE IF pending[slot].ticket > 0 /\ pending[other].ticket > pending[slot].ticket
             THEN [pending[other] EXCEPT !.ticket = @ - 1]
             ELSE pending[other]]

\* the call of the slot waits for the reply of a request sent now
AwaitReply(calls, slot, call) ==
    [calls EXCEPT ![slot] =
        [call EXCEPT !.ticket = Cardinality(WaitsForReply(calls)) + 1]]

\* the call of the slot waits for a timer
AwaitTimer(calls, slot, call) == [calls EXCEPT ![slot] = [call EXCEPT !.ticket = 0]]

\* users.find((u) => u.id === id), as an optional value
FindUser(list, id) ==
    IF \E i \in 1 .. Len(list) : list[i].id = id
    THEN Some(list[CHOOSE i \in 1 .. Len(list) :
                      list[i].id = id /\ \A j \in 1 .. i - 1 : list[j].id # id])
    ELSE None

\* users.filter((u) => u.id !== id)
WithoutUser(list, id) == SelectSeq(list, LAMBDA u : u.id # id)

\* users.map((u) => (u.id === id ? updatedUser : u))
WithUser(list, id, updatedUser) ==
    [i \in 1 .. Len(list) |-> IF list[i].id = id THEN updatedUser ELSE list[i]]

\* initialize, to the await of Promise.all([getUsers(), getSettings()])
userStore_initialize ==
    \E slot \in FreeSlots :
        /\ userStore' = [userStore EXCEPT !.isLoading = TRUE, !.error = None]
        /\ IF Initialized
           THEN \E fetched \in Orderings(getUsers, [u \in getUsers |-> u.createdAt]) :
                   pending' = AwaitReply(pending, slot,
                       [NoCall EXCEPT !.call = "initialize", !.pc = "fetched",
                                      !.val = [users |-> fetched,
                                               settings |-> getSettings]])
           ELSE pending' = AwaitReply(pending, slot,
                       [NoCall EXCEPT !.call = "initialize", !.pc = "fetched",
                                      !.ok = FALSE])
        /\ UNCHANGED backVars

\* initialize, from the replies to the set or to the await of updateSettings
userStore_initialize_fetched ==
    \E slot \in Slots :
        /\ pending[slot].call = "initialize" /\ pending[slot].pc = "fetched"
        /\ IsNextReply(slot)
        /\ IF ~pending[slot].ok
           THEN /\ userStore' = [userStore EXCEPT
                                    !.error = Some("Failed to initialize app"),
                                    !.isLoading = FALSE]
                /\ pending' = Resumed(slot)
                /\ UNCHANGED backVars
           ELSE LET fetched == pending[slot].val.users
                    fetchedSettings == pending[slot].val.settings
                    named == IF IsSome(fetchedSettings.lastActiveUserId)
                             THEN FindUser(fetched,
                                           Get(fetchedSettings.lastActiveUserId))
                             ELSE None
                IN  IF IsSome(named) \/ Len(fetched) = 0
                    THEN /\ userStore' = [userStore EXCEPT
                                !.users = fetched, !.currentUser = named,
                                !.settings = Some(fetchedSettings),
                                !.isLoading = FALSE]
                         /\ pending' = Resumed(slot)
                         /\ UNCHANGED backVars
                    ELSE /\ updateSettings([lastActiveUserId |-> Some(fetched[1].id)])
                         /\ pending' = AwaitReply(Resumed(slot), slot,
                                [pending[slot] EXCEPT !.pc = "persisted",
                                                      !.ok = lastCall'.ok])
                         /\ UNCHANGED userStore

\* initialize, from the reply of updateSettings to the set of the try or of the catch
userStore_initialize_persisted ==
    \E slot \in Slots :
        /\ pending[slot].call = "initialize" /\ pending[slot].pc = "persisted"
        /\ IsNextReply(slot)
        /\ userStore' =
              IF pending[slot].ok
              THEN [userStore EXCEPT
                      !.users = pending[slot].val.users,
                      !.currentUser = Some(pending[slot].val.users[1]),
                      !.settings = Some(pending[slot].val.settings),
                      !.isLoading = FALSE]
              ELSE [userStore EXCEPT !.error = Some("Failed to initialize app"),
                                     !.isLoading = FALSE]
        /\ pending' = Resumed(slot)
        /\ UNCHANGED backVars

\* switchUser(userId), to the await of the exit animation; a user the store does not
\* hold and the current user return before it
userStore_switchUser(userId) ==
    \E slot \in FreeSlots :
        LET user == FindUser(userStore.users, userId)
        IN  /\ IsSome(user)
            /\ ~(IsSome(userStore.currentUser) /\ Get(userStore.currentUser).id = userId)
            /\ userStore' = [userStore EXCEPT !.isSwitching = TRUE]
            /\ pending' = AwaitTimer(pending, slot,
                    [NoCall EXCEPT !.call = "switchUser", !.pc = "exit", !.id = userId,
                                   !.val = Get(user)])
            /\ UNCHANGED backVars

\* switchUser, from the exit animation to the await of updateSettings
userStore_switchUser_exit ==
    \E slot \in Slots :
        /\ pending[slot].call = "switchUser" /\ pending[slot].pc = "exit"
        /\ userStore' = [userStore EXCEPT !.currentUser = Some(pending[slot].val)]
        /\ updateSettings([lastActiveUserId |-> Some(pending[slot].id)])
        /\ pending' = AwaitReply(pending, slot,
                [pending[slot] EXCEPT !.pc = "persisted", !.ok = lastCall'.ok])

\* switchUser, from the reply of updateSettings to the await of the enter animation;
\* a rejected updateSettings rejects switchUser there
userStore_switchUser_persisted ==
    \E slot \in Slots :
        /\ pending[slot].call = "switchUser" /\ pending[slot].pc = "persisted"
        /\ IsNextReply(slot)
        /\ pending' = IF pending[slot].ok
                      THEN AwaitTimer(Resumed(slot), slot,
                                      [pending[slot] EXCEPT !.pc = "enter"])
                      ELSE Resumed(slot)
        /\ UNCHANGED <<backVars, userStore>>

\* switchUser, from the enter animation to its end
userStore_switchUser_enter ==
    \E slot \in Slots :
        /\ pending[slot].call = "switchUser" /\ pending[slot].pc = "enter"
        /\ userStore' = [userStore EXCEPT !.isSwitching = FALSE]
        /\ pending' = Resumed(slot)
        /\ UNCHANGED backVars

\* createUser, to the await of window.api.createUser; the first argument is what
\* the preload script passes to users:create as the data of the profile
userStore_createUser(data) ==
    \E slot \in FreeSlots :
        /\ createUser(data)
        /\ pending' = AwaitReply(pending, slot,
                [NoCall EXCEPT !.call = "createUser", !.pc = "created",
                               !.ok = lastCall'.ok, !.val = lastCall'.ret])
        /\ UNCHANGED userStore

\* createUser, from the reply to its end
userStore_createUser_created ==
    \E slot \in Slots :
        /\ pending[slot].call = "createUser" /\ pending[slot].pc = "created"
        /\ IsNextReply(slot)
        /\ userStore' = IF pending[slot].ok
                        THEN [userStore EXCEPT !.users = Append(@, pending[slot].val)]
                        ELSE userStore
        /\ pending' = Resumed(slot)
        /\ UNCHANGED backVars

\* updateUser(id, updates), to the await of window.api.updateUser
userStore_updateUser(id, updates) ==
    \E slot \in FreeSlots :
        /\ updateUser(id, updates)
        /\ pending' = AwaitReply(pending, slot,
                [NoCall EXCEPT !.call = "updateUser", !.pc = "updated", !.id = id,
                               !.ok = lastCall'.ok, !.val = lastCall'.ret])
        /\ UNCHANGED userStore

\* updateUser, from the reply to its end
userStore_updateUser_updated ==
    \E slot \in Slots :
        /\ pending[slot].call = "updateUser" /\ pending[slot].pc = "updated"
        /\ IsNextReply(slot)
        /\ userStore' =
              IF pending[slot].ok
              THEN [userStore EXCEPT
                      !.users = WithUser(@, pending[slot].id, pending[slot].val),
                      !.currentUser =
                          IF IsSome(@) /\ Get(@).id = pending[slot].id
                          THEN Some(pending[slot].val) ELSE @]
              ELSE userStore
        /\ pending' = Resumed(slot)
        /\ UNCHANGED backVars

\* deleteUser(id), to the await of window.api.deleteUser; with at most one user in
\* the store it throws before
userStore_deleteUser(id) ==
    \E slot \in FreeSlots :
        /\ Len(userStore.users) > 1
        /\ deleteUser(id)
        /\ pending' = AwaitReply(pending, slot,
                [NoCall EXCEPT !.call = "deleteUser", !.pc = "deleted", !.id = id,
                               !.ok = lastCall'.ok,
                               !.val = [users |-> userStore.users,
                                        currentUser |-> userStore.currentUser]])
        /\ UNCHANGED userStore

\* deleteUser, from the reply to its end or to the await of updateSettings; users and
\* currentUser are the values read before the first await
userStore_deleteUser_deleted ==
    \E slot \in Slots :
        /\ pending[slot].call = "deleteUser" /\ pending[slot].pc = "deleted"
        /\ IsNextReply(slot)
        /\ IF ~pending[slot].ok
           THEN /\ pending' = Resumed(slot)
                /\ UNCHANGED <<backVars, userStore>>
           ELSE LET id == pending[slot].id
                    currentUser == pending[slot].val.currentUser
                    remainingUsers == WithoutUser(pending[slot].val.users, id)
                    wasCurrent == IsSome(currentUser) /\ Get(currentUser).id = id
                    newCurrentUser ==
                        IF wasCurrent
                        THEN IF Len(remainingUsers) > 0 THEN Some(remainingUsers[1])
                             ELSE None
                        ELSE currentUser
                IN  /\ userStore' = [userStore EXCEPT !.users = remainingUsers,
                                                      !.currentUser = newCurrentUser]
                    /\ IF wasCurrent /\ IsSome(newCurrentUser)
                       THEN /\ updateSettings(
                                  [lastActiveUserId |-> Some(Get(newCurrentUser).id)])
                            /\ pending' = AwaitReply(Resumed(slot), slot,
                                   [pending[slot] EXCEPT !.pc = "persisted",
                                                         !.ok = lastCall'.ok])
                       ELSE /\ pending' = Resumed(slot)
                            /\ UNCHANGED backVars

\* deleteUser, from the reply of updateSettings to its end
userStore_deleteUser_persisted ==
    \E slot \in Slots :
        /\ pending[slot].call = "deleteUser" /\ pending[slot].pc = "persisted"
        /\ IsNextReply(slot)
        /\ pending' = Resumed(slot)
        /\ UNCHANGED <<backVars, userStore>>

\* the ids the user interface offers: those of the users the store holds
StoreUserIds == {userStore.users[i].id : i \in 1 .. Len(userStore.users)}

\* the state outside the database module and the user store
notUserStore == <<store, app, weightStore>>

-----------------------------------------------------------------------------
(* Deleting profiles through the user store: profiles are created and the store  *)
(* is initialized one call at a time, deleteUser calls overlap                   *)

OnlyDeletesWaiting == \A slot \in Waiting : pending[slot].call = "deleteUser"

NextDelete ==
    \/ initDatabase /\ UNCHANGED frontVars
    \/ \E data \in RoundTripUsers :
          Settled /\ userStore_createUser(data) /\ UNCHANGED notUserStore
    \/ userStore_createUser_created /\ UNCHANGED notUserStore
    \/ Settled /\ userStore_initialize /\ UNCHANGED notUserStore
    \/ userStore_initialize_fetched /\ UNCHANGED notUserStore
    \/ userStore_initialize_persisted /\ UNCHANGED notUserStore
    \/ \E id \in StoreUserIds :
          OnlyDeletesWaiting /\ userStore_deleteUser(id) /\ UNCHANGED notUserStore
    \/ userStore_deleteUser_deleted /\ UNCHANGED notUserStore
    \/ userStore_deleteUser_persisted /\ UNCHANGED notUserStore

SpecDelete == Init /\ [][NextDelete]_vars

\* the users list of the store is the list getUsers returns, in an order of creation
StoreHoldsDatabaseUsers ==
    userStore.users \in Orderings(getUsers, [u \in getUsers |-> u.createdAt])

\* C27: a deleteUser of the user store leaves at least one user in the users table,
\* and when no call of the store is waiting the users list of the store is the list
\* of users of the database
C27_DeleteKeepsLastProfile ==
    /\ lastCall.op = "deleteUser" /\ lastCall.ok => users # {}
    /\ Initialized /\ Settled => StoreHoldsDatabaseUsers

-----------------------------------------------------------------------------
(* The user store with overlapping calls of its five actions                     *)

NextUserStore ==
    \/ initDatabase /\ UNCHANGED frontVars
    \/ userStore_initialize /\ UNCHANGED notUserStore
    \/ userStore_initialize_fetched /\ UNCHANGED notUserStore
    \/ userStore_initialize_persisted /\ UNCHANGED notUserStore
    \/ \E userId \in StoreUserIds : userStore_switchUser(userId) /\ UNCHANGED notUserStore
    \/ userStore_switchUser_exit /\ UNCHANGED notUserStore
    \/ userStore_switchUser_persisted /\ UNCHANGED notUserStore
    \/ userStore_switchUser_enter /\ UNCHANGED notUserStore
    \/ userStore_createUser(OneProfile) /\ UNCHANGED notUserStore
    \/ userStore_createUser_created /\ UNCHANGED notUserStore
    \/ \E id \in StoreUserIds :
          userStore_updateUser(id, [firstName |-> <<"C">>]) /\ UNCHANGED notUserStore
    \/ userStore_updateUser_updated /\ UNCHANGED notUserStore
    \/ \E id \in StoreUserIds : userStore_deleteUser(id) /\ UNCHANGED notUserStore
    \/ userStore_deleteUser_deleted /\ UNCHANGED notUserStore
    \/ userStore_deleteUser_persisted /\ UNCHANGED notUserStore

SpecUserStore == Init /\ [][NextUserStore]_vars

\* the user settings.lastActiveUserId names in the database, as an optional id
LastActiveInDatabase ==
    IF settings = {} THEN None ELSE (CHOOSE row \in settings : TRUE).last_active_user_id

\* C28: when no call of the user store is waiting, currentUser is null or has the id
\* of a user of the users list, and a current user is the user the settings row of the
\* database names as the last active one
C28_CurrentUserListedAndPersisted ==
    Settled =>
        /\ userStore.currentUser = None
              \/ Get(userStore.currentUser).id \in StoreUserIds
        /\ IsSome(userStore.currentUser) =>
              LastActiveInDatabase = Some(Get(userStore.currentUser).id)

-----------------------------------------------------------------------------
(* One switchUser call at a time, overlapped by createUser and deleteUser calls. *)
(* A timer that was set fires and a request that was sent is answered: every     *)
(* step that resumes a waiting call is weakly fair. Starting a call is not.      *)

NoSwitchWaiting == \A slot \in Waiting : pending[slot].call # "switchUser"

switchUser_exit == userStore_switchUser_exit /\ UNCHANGED notUserStore
switchUser_persisted == userStore_switchUser_persisted /\ UNCHANGED notUserStore
switchUser_enter == userStore_switchUser_enter /\ UNCHANGED notUserStore
createUser_created == userStore_createUser_created /\ UNCHANGED notUserStore
deleteUser_deleted == userStore_deleteUser_deleted /\ UNCHANGED notUserStore
deleteUser_persisted == userStore_deleteUser_persisted /\ UNCHANGED notUserStore

NextSwitch ==
    \/ initDatabase /\ UNCHANGED frontVars
    \/ userStore_createUser(OneProfile) /\ UNCHANGED notUserStore
    \/ createUser_created
    \/ \E userId \in StoreUserIds :
          NoSwitchWaiting /\ userStore_switchUser(userId) /\ UNCHANGED notUserStore
    \/ switchUser_exit
    \/ switchUser_persisted
    \/ switchUser_enter
    \/ \E id \in StoreUserIds : userStore_deleteUser(id) /\ UNCHANGED notUserStore
    \/ deleteUser_deleted
    \/ deleteUser_persisted

RepliesAndTimersArrive ==
    /\ WF_vars(switchUser_exit)
    /\ WF_vars(switchUser_persisted)
    /\ WF_vars(switchUser_enter)
    /\ WF_vars(createUser_created)
    /\ WF_vars(deleteUser_deleted)
    /\ WF_vars(deleteUser_persisted)

SpecSwitch == Init /\ [][NextSwitch]_vars /\ RepliesAndTimersArrive

\* C29: whenever isSwitching is true it is false again at some later time, also when
\* the updateSettings of the switchUser call that set it is rejected
C29_SwitchingEventuallyEnds == userStore.isSwitching ~> ~userStore.isSwitching

-----------------------------------------------------------------------------
(* The weight store of the renderer: every action awaits one call of the         *)
(* database through the IPC handlers and then sets the store from the reply;     *)
(* the calls are made one after the other                                        *)

\* b.date.localeCompare(a.date) <= 0 on dates written YYYY-MM-DD: a is not before b
NotBefore(a, b) == DateLE(b.date, a.date)

\* Array.prototype.sort((a, b) => b.date.localeCompare(a.date)): most recent first,
\* entries of one date in the order they had (the sort is stable)
RECURSIVE SortByDateDesc(_)
SortByDateDesc(list) ==
    IF Len(list) <= 1 THEN list
    ELSE LET front == SortByDateDesc(SubSeq(list, 1, Len(list) - 1))
             last == list[Len(list)]
             kept == {i \in 1 .. Len(front) : NotBefore(front[i], last)}
             at == IF kept = {} THEN 0 ELSE CHOOSE i \in kept : \A j \in kept : j <= i
         IN  SubSeq(front, 1, at) \o <<last>> \o SubSeq(front, at + 1, Len(front))

\* the rows of getWeightEntries under ORDER BY date DESC
WeightEntriesByDateDesc(userId) ==
    Orderings(getWeightEntries(userId),
              [e \in getWeightEntries(userId) |-> 0 - DaysFromCivil(e.date)])

\* fetchEntries(userId): the reply sorted, or the error of the catch
weightStore_fetchEntries(userId) ==
    /\ IF Initialized
       THEN \E fetched \in WeightEntriesByDateDesc(userId) :
               /\ weightStore' = [weightStore EXCEPT !.entries = SortByDateDesc(fetched)]
               /\ Reads("getWeightEntries", <<userId>>, fetched)
       ELSE /\ UNCHANGED weightStore
            /\ Throws("getWeightEntries", <<userId>>, NOT_INITIALIZED)
    /\ UNCHANGED <<db, tables, uuidCount, now>>

\* addEntry(entry): the entry returned is appended to the entries held and the array
\* is sorted; a rejected call leaves the store as it was
weightStore_addEntry(entry) ==
    /\ addWeightEntry(entry)
    /\ weightStore' =
          IF lastCall'.ok
          THEN [weightStore EXCEPT !.entries = SortByDateDesc(Append(@, lastCall'.ret))]
          ELSE weightStore

\* deleteEntry(id): the entries without the one deleted
weightStore_deleteEntry(id) ==
    /\ deleteWeightEntry(id)
    /\ weightStore' =
          IF lastCall'.ok
          THEN [weightStore EXCEPT !.entries = SelectSeq(@, LAMBDA e : e.id # id)]
          ELSE weightStore

\* the ids of the entries the store holds
StoreEntryIds == {weightStore.entries[i].id : i \in 1 .. Len(weightStore.entries)}

\* the state outside the database module and the weight store
notWeightStore == <<store, app, userStore, pending>>

\* one profile, whose weight entries are written through the store only
NextWeightStore ==
    \/ initDatabase /\ UNCHANGED frontVars
    \/ users = {} /\ createUser(OneProfile) /\ UNCHANGED frontVars
    \/ \E userId \in UserIds : weightStore_fetchEntries(userId) /\ UNCHANGED notWeightStore
    \/ \E entry \in AddWeightInputs(UserIds) :
          weightStore_addEntry(entry) /\ UNCHANGED notWeightStore
    \/ \E id \in StoreEntryIds : weightStore_deleteEntry(id) /\ UNCHANGED notWeightStore

SpecWeightStore == Init /\ [][NextWeightStore]_vars

\* C30: the entries of the weight store are the weight entries the database holds for
\* the user, most recent date first, with no two entries of one date and no id the
\* weight_entries table does not hold
C30_StoreEntriesAreDatabaseEntries ==
    LET entries == weightStore.entries
    IN  /\ \A userId \in UserIds : entries \in WeightEntriesByDateDesc(userId)
        /\ \A i, j \in 1 .. Len(entries) : entries[i].date = entries[j].date => i = j
        /\ StoreEntryIds \subseteq WeightIds

=============================================================================
